---- MODULE Spec2Model ----
(***************************************************************************)
(* Bit-level serialization codec of tier1/bitbuf.cpp: bf_write, bf_read    *)
(* and their shared encodings.                                             *)
(*                                                                         *)
(* Machine integers are modelled as the set of their one-bit positions:    *)
(* the uint32 0x00000005 is {0, 2}, 0xFFFFFFFF is 0..31.  The caller-owned *)
(* buffer is one set of bit positions, bit p being bit (p % 8) of byte     *)
(* (p \div 8), which is the little-endian dword layout the codec uses.     *)
(***************************************************************************)
EXTENDS Integers, Sequences, FiniteSets, TLC

VARIABLES
    mem,    \* the caller's buffer: the set of positions of its one bits
    bw,     \* the bf_write: m_nDataBytes, m_nDataBits, m_iCurBit, m_bOverflow
    br,     \* the bf_read: the same four fields
    pc,     \* where a scenario stands: "write", "read", "done", or "run"
    obs,    \* the last call: its name, arguments and return value
    sum,    \* bits put out by the writes since the writer was bound or reset
    log,    \* the fields written so far, in order
    rlog,   \* the values read back so far, in order
    steps,  \* number of calls made
    dst,    \* the caller's destination memory (pOutData, pStr), as mem is kept
    g_BitBufErrorHandler,
            \* the installed error handler, and the calls it has received
    sock    \* a CThreadedTCPSocket: its send queue, events and threads

vars == <<mem, bw, br, pc, obs, sum, log, rlog, steps, dst, g_BitBufErrorHandler, sock>>

(***************************************************************************)
(* Bounds of the model.                                                    *)
(***************************************************************************)
\* size of the caller's buffer, in 32-bit words
MemWords == 3
\* number of operations in a run of the general specification
MaxSteps == 3
\* number of fields in a written sequence
MaxFields == 3

MemBytes == 4 * MemWords
MemBits == 32 * MemWords

(***************************************************************************)
(* Machine arithmetic on bit sets.                                         *)
(***************************************************************************)
RECURSIVE Pow2(_)
Pow2(k) == IF k = 0 THEN 1 ELSE 2 * Pow2(k - 1)

\* the bit set of a natural number below 2^31
BitsOf(n) == {i \in 0..30 : (n \div Pow2(i)) % 2 = 1}

Low(k) == 0..(k - 1)

Trunc(s, w) == s \cap Low(w)

Shl(s, k, w) == {i + k : i \in {j \in s : j + k < w}}

Shr(s, k) == {i - k : i \in {j \in s : j >= k}}

\* arithmetic right shift of a w-bit signed value
Sar(s, k, w) == Shr(s, k) \cup (IF (w - 1) \in s THEN (w - k)..(w - 1) ELSE {})

Xor(a, b) == (a \ b) \cup (b \ a)

Not(a, w) == Low(w) \ a

\* unsigned a < b
ULess(a, b) == /\ a # b
               /\ LET d == Xor(a, b)
                      top == CHOOSE i \in d : \A j \in d : j <= i
                  IN top \in b

RECURSIVE AddCarry(_, _, _, _, _)
AddCarry(a, b, i, c, w) ==
    IF i = w THEN {}
    ELSE LET x == (IF i \in a THEN 1 ELSE 0) + (IF i \in b THEN 1 ELSE 0) + c
         IN (IF x % 2 = 1 THEN {i} ELSE {}) \cup AddCarry(a, b, i + 1, x \div 2, w)

\* a + b and a - b modulo 2^w
Add(a, b, w) == AddCarry(a, b, 0, 0, w)
Sub(a, b, w) == AddCarry(a, Not(b, w), 0, 1, w)
Neg(a, w) == Sub({}, a, w)

(***************************************************************************)
(* The global error handler: static BitBufErrorHandler g_BitBufErrorHandler *)
(* = nullptr, and what the installed function has been called with.        *)
(***************************************************************************)
NoHandler == [fn |-> FALSE, calls |-> <<>>]

\* calls the handler without the test if (g_BitBufErrorHandler)
InternalBitBufErrorHandler_Untested(h, errorType) ==
    [h EXCEPT !.calls = Append(h.calls, errorType)]

InternalBitBufErrorHandler(h, errorType) ==
    IF h.fn THEN [h EXCEPT !.calls = Append(h.calls, errorType)] ELSE h

SetBitBufErrorHandler(h, fn) == [h EXCEPT !.fn = fn]

\* the handler after the CallErrorHandler(errorType, name) calls of an operation
RECURSIVE CallErrorHandler(_, _)
CallErrorHandler(h, err) ==
    IF err = <<>> THEN h
    ELSE CallErrorHandler(InternalBitBufErrorHandler(h, Head(err)), Tail(err))

(***************************************************************************)
(* A writer or reader together with the buffer it points at.               *)
(***************************************************************************)
View(o, m) == [data |-> m, m_nDataBytes |-> o.m_nDataBytes, m_nDataBits |-> o.m_nDataBits,
               m_iCurBit |-> o.m_iCurBit, m_bOverflow |-> o.m_bOverflow]

Fields(b) == [m_nDataBytes |-> b.m_nDataBytes, m_nDataBits |-> b.m_nDataBits,
              m_iCurBit |-> b.m_iCurBit, m_bOverflow |-> b.m_bOverflow]

\* bf_write::bf_write() and bf_read::bf_read(): not attached to a buffer
Unbound == [m_nDataBytes |-> 0, m_nDataBits |-> -1, m_iCurBit |-> 0, m_bOverflow |-> FALSE]

\* nBytes &= ~3
RoundDown4(n) == n - (n % 4)

(***************************************************************************)
(* Protocol constants and inline primitives of bitbuf.h.                   *)
(***************************************************************************)
kMaxVarint32Bytes == 5
kMaxVarintBytes == 10

\* bits [at, at + n) of the buffer as a value
Peek(data, at, n) == {i - at : i \in {j \in data : j >= at /\ j < at + n}}

\* the buffer with bits [at, at + n) replaced by the low n bits of v
Poke(data, at, n, v) == {j \in data : j < at \/ j >= at + n}
                            \cup {at + i : i \in Trunc(v, n)}

SetOverflowFlag(b) == [b EXCEPT !.m_bOverflow = TRUE]

\* an overflowed object ignores the call; a write past the declared capacity
\* sets the flag and leaves the buffer as it was
WriteUBitLong(b, curData, numbits) ==
    IF b.m_bOverflow THEN b
    ELSE IF b.m_iCurBit + numbits > b.m_nDataBits THEN SetOverflowFlag(b)
    ELSE [b EXCEPT !.data = Poke(b.data, b.m_iCurBit, numbits, curData),
                   !.m_iCurBit = b.m_iCurBit + numbits]

\* [bf |-> the reader afterwards, val |-> the value returned]
ReadUBitLong(b, numbits) ==
    IF b.m_bOverflow THEN [bf |-> b, val |-> {}]
    ELSE IF b.m_iCurBit + numbits > b.m_nDataBits
         THEN [bf |-> SetOverflowFlag(b), val |-> {}]
    ELSE [bf |-> [b EXCEPT !.m_iCurBit = b.m_iCurBit + numbits],
          val |-> Peek(b.data, b.m_iCurBit, numbits)]

\* (n << 1) ^ (n >> 31) and (n << 1) ^ (n >> 63)
ZigZagEncode32(n) == Xor(Shl(n, 1, 32), Sar(n, 31, 32))
ZigZagEncode64(n) == Xor(Shl(n, 1, 64), Sar(n, 63, 64))

\* (z >> 1) ^ -(z & 1)
ZigZagDecode32(z) == Xor(Shr(z, 1), Neg(z \cap {0}, 32))
ZigZagDecode64(z) == Xor(Shr(z, 1), Neg(z \cap {0}, 64))

\* (char) ReadUBitLong(8)
ReadChar(b) == ReadUBitLong(b, 8)

\* one bit read and written as the multi-bit primitives do; WriteOneBit
\* writes a one for any nonzero nValue
ReadOneBit(b) == ReadUBitLong(b, 1)

WriteOneBit(b, nValue) == WriteUBitLong(b, IF nValue = {} THEN {} ELSE {0}, 1)

\* bf_read::Seek: a position outside 0..m_nDataBits sets the overflow flag
Seek(b, iBit) ==
    IF iBit < 0 \/ iBit > b.m_nDataBits
    THEN [SetOverflowFlag(b) EXCEPT !.m_iCurBit = b.m_nDataBits]
    ELSE [b EXCEPT !.m_iCurBit = iBit]

(***************************************************************************)
(* bf_write                                                                *)
(***************************************************************************)
StartWriting(m, nBytes, iStartBit, nBits) ==
    [data |-> m,
     m_nDataBytes |-> RoundDown4(nBytes),
     m_nDataBits |-> IF nBits = -1 THEN RoundDown4(nBytes) * 8 ELSE nBits,
     m_iCurBit |-> iStartBit,
     m_bOverflow |-> FALSE]

Reset(b) == [b EXCEPT !.m_iCurBit = 0, !.m_bOverflow = FALSE]

SeekToBit(b, bitPos) == [b EXCEPT !.m_iCurBit = bitPos]

WriteSBitLong(b, data, numbits) ==
    LET nPreserveBits == Shr(Low(31), 32 - numbits)
        nSignExtension == Sar(data, 31, 32) \cap Not(nPreserveBits, 32)
        nValue == (data \cap nPreserveBits) \cup nSignExtension
    IN WriteUBitLong(b, nValue, numbits)

\* target[i] = (uint8) v
StoreByte(data, iByte, v) == Poke(data, 8 * iByte, 8, v)

\* the four-byte case leaves the continuation bit of its last byte set
WriteVarInt32Fast_KeepBit(b, data) ==
    LET t == b.m_iCurBit \div 8
        c7 == {7}
        d0 == StoreByte(b.data, t, data \cup c7)
        d1 == StoreByte(d0, t + 1, Shr(data, 7) \cup c7)
        d2 == StoreByte(d1, t + 2, Shr(data, 14) \cup c7)
        d3 == StoreByte(d2, t + 3, Shr(data, 21) \cup c7)
        d4 == StoreByte(d3, t + 4, Shr(data, 28))
        Done(d, n) == [b EXCEPT !.data = d, !.m_iCurBit = b.m_iCurBit + n * 8]
    IN IF ~ULess(data, {7})
       THEN IF ~ULess(data, {14})
            THEN IF ~ULess(data, {21})
                 THEN IF ~ULess(data, {28})
                      THEN Done(d4, 5)
                      ELSE Done(d3, 4)
                 ELSE Done(d2 \ {8 * (t + 2) + 7}, 3)
            ELSE Done(d1 \ {8 * (t + 1) + 7}, 2)
       ELSE Done(d0 \ {8 * t + 7}, 1)

\* the byte-aligned branch of WriteVarInt32
WriteVarInt32Fast(b, data) ==
    LET t == b.m_iCurBit \div 8
        c7 == {7}
        d0 == StoreByte(b.data, t, data \cup c7)
        d1 == StoreByte(d0, t + 1, Shr(data, 7) \cup c7)
        d2 == StoreByte(d1, t + 2, Shr(data, 14) \cup c7)
        d3 == StoreByte(d2, t + 3, Shr(data, 21) \cup c7)
        d4 == StoreByte(d3, t + 4, Shr(data, 28))
        Done(d, n) == [b EXCEPT !.data = d, !.m_iCurBit = b.m_iCurBit + n * 8]
    IN IF ~ULess(data, {7})
       THEN IF ~ULess(data, {14})
            THEN IF ~ULess(data, {21})
                 THEN IF ~ULess(data, {28})
                      THEN Done(d4, 5)
                      ELSE Done(d3 \ {8 * (t + 3) + 7}, 4)
                 ELSE Done(d2 \ {8 * (t + 2) + 7}, 3)
            ELSE Done(d1 \ {8 * (t + 1) + 7}, 2)
       ELSE Done(d0 \ {8 * t + 7}, 1)

\* the per-byte branch of WriteVarInt32:
\* while (data > 0x7F) { WriteUBitLong((data & 0x7F) | 0x80, 8); data >>= 7; }
\* WriteUBitLong(data & 0x7F, 8);
RECURSIVE WriteVarInt32Loop(_, _)
WriteVarInt32Loop(b, data) ==
    IF ULess(Low(7), data)
    THEN WriteVarInt32Loop(WriteUBitLong(b, (data \cap Low(7)) \cup {7}, 8), Shr(data, 7))
    ELSE WriteUBitLong(b, data \cap Low(7), 8)

\* the test without (m_iCurBit & 7) == 0
IsFastVarInt32_AnyBit(b) == b.m_iCurBit + kMaxVarint32Bytes * 8 <= b.m_nDataBits

\* (m_iCurBit & 7) == 0 && (m_iCurBit + kMaxVarint32Bytes * 8) <= m_nDataBits
IsFastVarInt32(b) ==
    b.m_iCurBit % 8 = 0 /\ b.m_iCurBit + kMaxVarint32Bytes * 8 <= b.m_nDataBits

WriteVarInt32(b, data) ==
    IF IsFastVarInt32(b)
    THEN WriteVarInt32Fast(b, data)
    ELSE WriteVarInt32Loop(b, data)

\* the byte-aligned branch of WriteVarInt64
WriteVarInt64Fast(b, data) ==
    LET t == b.m_iCurBit \div 8
        c7 == {7}
        part0 == Trunc(data, 32)
        part1 == Trunc(Shr(data, 28), 32)
        part2 == Trunc(Shr(data, 56), 32)
        size == IF part2 = {}
                THEN IF part1 = {}
                     THEN (IF ULess(part0, {7}) THEN 1 ELSE 2)
                     ELSE (IF ULess(part1, {7}) THEN 5
                           ELSE IF ULess(part1, {14}) THEN 6
                           ELSE IF ULess(part1, {21}) THEN 7 ELSE 8)
                ELSE (IF ULess(part2, {7}) THEN 9 ELSE 10)
        byteOf(i) == CASE i = 9 -> Shr(part2, 7) \cup c7
                       [] i = 8 -> part2 \cup c7
                       [] i = 7 -> Shr(part1, 21) \cup c7
                       [] i = 6 -> Shr(part1, 14) \cup c7
                       [] i = 5 -> Shr(part1, 7) \cup c7
                       [] i = 4 -> part1 \cup c7
                       [] i = 3 -> Shr(part0, 21) \cup c7
                       [] i = 2 -> Shr(part0, 14) \cup c7
                       [] i = 1 -> Shr(part0, 7) \cup c7
                       [] i = 0 -> part0 \cup c7
        \* the switch falls through from case `size` down to case 1
        stored == {j \in b.data : j < 8 * t \/ j >= 8 * (t + size)}
                    \cup UNION {{8 * (t + i) + k : k \in Trunc(byteOf(i), 8)} : i \in 0..(size - 1)}
    IN [b EXCEPT !.data = stored \ {8 * (t + size - 1) + 7},
                 !.m_iCurBit = b.m_iCurBit + size * 8]

\* the per-byte branch of WriteVarInt64
RECURSIVE WriteVarInt64Loop(_, _)
WriteVarInt64Loop(b, data) ==
    IF ULess(Low(7), data)
    THEN WriteVarInt64Loop(WriteUBitLong(b, (data \cap Low(7)) \cup {7}, 8), Shr(data, 7))
    ELSE WriteUBitLong(b, data \cap Low(7), 8)

\* (m_iCurBit & 7) == 0 && (m_iCurBit + kMaxVarintBytes * 8) <= m_nDataBits
IsFastVarInt64(b) ==
    b.m_iCurBit % 8 = 0 /\ b.m_iCurBit + kMaxVarintBytes * 8 <= b.m_nDataBits

WriteVarInt64(b, data) ==
    IF IsFastVarInt64(b)
    THEN WriteVarInt64Fast(b, data)
    ELSE WriteVarInt64Loop(b, data)

WriteSignedVarInt32(b, data) == WriteVarInt32(b, ZigZagEncode32(data))

WriteSignedVarInt64(b, data) == WriteVarInt64(b, ZigZagEncode64(data))

RECURSIVE ByteSizeVarInt32(_)
ByteSizeVarInt32(data) ==
    IF ULess(Low(7), data) THEN 1 + ByteSizeVarInt32(Shr(data, 7)) ELSE 1

RECURSIVE ByteSizeVarInt64(_)
ByteSizeVarInt64(data) ==
    IF ULess(Low(7), data) THEN 1 + ByteSizeVarInt64(Shr(data, 7)) ELSE 1

IsPC == TRUE

\* 1 << bitnum
BitForBitnum(bitnum) == {bitnum % 32}

\* the table without the bits at and above endBit
g_BitWriteMasks_LowOnly(startBit, bitsLeft) == Sub(BitForBitnum(startBit), {0}, 32)

\* g_BitWriteMasks[startBit][bitsLeft] as CBitWriteMasksInit fills it
g_BitWriteMasks(startBit, bitsLeft) ==
    LET endBit == startBit + bitsLeft
    IN Sub(BitForBitnum(startBit), {0}, 32)
         \cup (IF endBit < 32 THEN Not(Sub(BitForBitnum(endBit), {0}, 32), 32) ELSE {})

\* g_ExtraMasks[maskBit]
g_ExtraMasks(maskBit) == IF maskBit = 32 THEN Low(32) ELSE Sub(BitForBitnum(maskBit), {0}, 32)

LoadDWord(data, i) == Peek(data, 32 * i, 32)

StoreDWord(data, i, v) == Poke(data, 32 * i, 32, v)

\* The state of a WriteBits call: the writer b, the caller's bits src, the
\* address of pInData modulo 4, the bits of src consumed, and nBitsLeft.
\* while ((((uintptr_t)pOut) & 3) != 0 && nBitsLeft >= 8)
RECURSIVE WriteBitsAlign(_)
WriteBitsAlign(st) ==
    IF (st.addr + st.off \div 8) % 4 # 0 /\ st.left >= 8
    THEN WriteBitsAlign([st EXCEPT !.b = WriteUBitLong(st.b, Peek(st.src, st.off, 8), 8),
                                   !.off = st.off + 8,
                                   !.left = st.left - 8])
    ELSE st

\* Q_memcpy of whole bytes at a byte-aligned cursor
WriteBitsMemcpy(st) ==
    IF IsPC /\ st.left >= 32 /\ st.b.m_iCurBit % 8 = 0
    THEN LET numbytes == st.left \div 8
             numbits == numbytes * 8
         IN [st EXCEPT !.b = [st.b EXCEPT
                                 !.data = Poke(st.b.data, st.b.m_iCurBit, numbits,
                                               Peek(st.src, st.off, numbits)),
                                 !.m_iCurBit = st.b.m_iCurBit + numbits],
                       !.off = st.off + numbits,
                       !.left = st.left - numbits]
    ELSE st

\* the dword loop: each source dword is merged into two buffer dwords
RECURSIVE WriteBitsDWords(_, _, _)
WriteBitsDWords(st, iBitsRight, pData) ==
    IF st.left >= 32
    THEN LET iBitsLeft == 32 - iBitsRight
             bitMaskLeft == g_BitWriteMasks(iBitsRight, 32)
             bitMaskRight == g_BitWriteMasks(0, iBitsRight)
             curData == Peek(st.src, st.off, 32)
             d1 == StoreDWord(st.b.data, pData,
                              (LoadDWord(st.b.data, pData) \cap bitMaskLeft)
                                 \cup Shl(curData, iBitsRight, 32))
             d2 == IF iBitsLeft < 32
                   THEN StoreDWord(d1, pData + 1,
                                   (LoadDWord(d1, pData + 1) \cap bitMaskRight)
                                      \cup Shr(curData, iBitsLeft))
                   ELSE d1
         IN WriteBitsDWords([st EXCEPT !.b = [st.b EXCEPT !.data = d2,
                                                          !.m_iCurBit = st.b.m_iCurBit + 32],
                                       !.off = st.off + 32,
                                       !.left = st.left - 32],
                            iBitsRight, pData + 1)
    ELSE st

\* iBitsRight = (m_iCurBit & 7)
WriteBitsLoop_InByte(st) ==
    IF IsPC /\ st.left >= 32
    THEN WriteBitsDWords(st, st.b.m_iCurBit % 8, st.b.m_iCurBit \div 32)
    ELSE st

WriteBitsLoop(st) ==
    IF IsPC /\ st.left >= 32
    THEN WriteBitsDWords(st, st.b.m_iCurBit % 32, st.b.m_iCurBit \div 32)
    ELSE st

\* while (nBitsLeft >= 8) ... ; if (nBitsLeft) WriteUBitLong(*pOut, nBitsLeft, false)
RECURSIVE WriteBitsTail(_)
WriteBitsTail(st) ==
    IF st.left >= 8
    THEN WriteBitsTail([st EXCEPT !.b = WriteUBitLong(st.b, Peek(st.src, st.off, 8), 8),
                                  !.off = st.off + 8,
                                  !.left = st.left - 8])
    ELSE IF st.left > 0
    THEN [st EXCEPT !.b = WriteUBitLong(st.b, Peek(st.src, st.off, st.left), st.left),
                    !.off = st.off + st.left,
                    !.left = 0]
    ELSE st

\* (m_iCurBit + nBits) >= m_nDataBits in place of >
WriteBitsOverruns_AtEnd(b, nBits) == b.m_iCurBit + nBits >= b.m_nDataBits

\* (m_iCurBit + nBits) > m_nDataBits
WriteBitsOverruns(b, nBits) == b.m_iCurBit + nBits > b.m_nDataBits

\* [bf |-> the writer afterwards, val |-> the value returned,
\*  err |-> the error types passed to CallErrorHandler]
WriteBits(b, src, addr, nBits) ==
    IF WriteBitsOverruns(b, nBits)
    THEN [bf |-> SetOverflowFlag(b), val |-> FALSE, err |-> <<"BITBUFERROR_BUFFER_OVERRUN">>]
    ELSE LET st0 == [b |-> b, src |-> src, addr |-> addr, off |-> 0, left |-> nBits]
             st == WriteBitsTail(WriteBitsLoop(WriteBitsMemcpy(WriteBitsAlign(st0))))
         IN [bf |-> st.b, val |-> ~st.b.m_bOverflow, err |-> <<>>]

\* a const char*: the null pointer, or the bytes in front of the terminator
nullptr == [null |-> TRUE, chars |-> <<>>]

CString(chars) == [null |-> FALSE, chars |-> chars]

\* the int a char converts to
IntOfChar(c) == IF 7 \in c THEN c \cup (8..31) ELSE c

\* WriteSBitLong(val, 16)
WriteChar_Short(b, val) == WriteSBitLong(b, val, 16)

\* WriteSBitLong(val, sizeof(char) * 8)
WriteChar(b, val) == WriteSBitLong(b, val, 8)

\* while (*pStr) WriteChar(*pStr++)
RECURSIVE WriteStringLoop(_, _)
WriteStringLoop(b, chars) ==
    IF chars = <<>> THEN b
    ELSE WriteStringLoop(WriteChar(b, IntOfChar(Head(chars))), Tail(chars))

\* [bf |-> the writer afterwards, val |-> the value returned]
WriteString(b, pStr) ==
    LET r == WriteChar(IF pStr.null THEN b ELSE WriteStringLoop(b, pStr.chars), {})
    IN [bf |-> r, val |-> ~r.m_bOverflow]

(***************************************************************************)
(* bf_read                                                                 *)
(***************************************************************************)
StartReading(m, nBytes, iStartBit, nBits) ==
    [data |-> m,
     m_nDataBytes |-> nBytes,
     m_nDataBits |-> IF nBits = -1 THEN nBytes * 8 ELSE nBits,
     m_iCurBit |-> iStartBit,
     m_bOverflow |-> FALSE]

\* bf_read::Reset
ReadReset(b) == [b EXCEPT !.m_iCurBit = 0, !.m_bOverflow = FALSE]

\* The state of a ReadBits call: the reader b, the caller's memory out, the
\* address of pOutData modulo 4, the bits of out filled, and nBitsLeft.
\* One ReadUBitLong(numbits) stored as a byte or a dword at pOut.
ReadBitsStore(st, numbits, width) ==
    LET rd == ReadUBitLong(st.b, numbits)
    IN [st EXCEPT !.b = rd.bf,
                  !.out = Poke(st.out, st.off, width, rd.val),
                  !.off = st.off + width,
                  !.left = st.left - numbits]

\* while ((((uintptr_t)pOut) & 3) != 0 && nBitsLeft >= 8)
RECURSIVE ReadBitsAlign(_)
ReadBitsAlign(st) ==
    IF (st.addr + st.off \div 8) % 4 # 0 /\ st.left >= 8
    THEN ReadBitsAlign(ReadBitsStore(st, 8, 8))
    ELSE st

\* while (nBitsLeft >= 32) *((uint32*)pOut) = ReadUBitLong(32)
RECURSIVE ReadBitsDWords(_)
ReadBitsDWords(st) ==
    IF IsPC /\ st.left >= 32
    THEN ReadBitsDWords(ReadBitsStore(st, 32, 32))
    ELSE st

\* while (nBitsLeft >= 8) ... ; if (nBitsLeft) *pOut = ReadUBitLong(nBitsLeft)
RECURSIVE ReadBitsTail(_)
ReadBitsTail(st) ==
    IF st.left >= 8 THEN ReadBitsTail(ReadBitsStore(st, 8, 8))
    ELSE IF st.left > 0 THEN ReadBitsStore(st, st.left, 8)
    ELSE st

\* [bf |-> the reader afterwards, out |-> the caller's memory afterwards]
ReadBits(b, out, addr, nBits) ==
    LET st0 == [b |-> b, out |-> out, addr |-> addr, off |-> 0, left |-> nBits]
        st == ReadBitsTail(ReadBitsDWords(ReadBitsAlign(st0)))
    IN [bf |-> st.b, out |-> st.out]

ReadUBitVarInternal(b, encodingType) ==
    LET bits == 4 + encodingType * 4 + (IF 2 - encodingType < 0 THEN 16 ELSE 0)
    IN ReadUBitLong([b EXCEPT !.m_iCurBit = b.m_iCurBit - 4], bits)

\* sign test r > s in place of r >= s
ReadSBitLong_Strict(b, numbits) ==
    LET rd == ReadUBitLong(b, numbits)
        r == rd.val
        s == {numbits - 1}
    IN [bf |-> rd.bf,
        val |-> IF ULess(s, r) THEN Sub(Sub(r, s, 32), s, 32) ELSE r]

ReadSBitLong(b, numbits) ==
    LET rd == ReadUBitLong(b, numbits)
        r == rd.val
        s == {numbits - 1}
    IN [bf |-> rd.bf,
        val |-> IF ~ULess(r, s) THEN Sub(Sub(r, s, 32), s, 32) ELSE r]

RECURSIVE ReadVarInt32Loop(_, _, _)
ReadVarInt32Loop(b, result, count) ==
    IF count = kMaxVarint32Bytes THEN [bf |-> b, val |-> result]
    ELSE LET rd == ReadUBitLong(b, 8)
             res == result \cup Shl(rd.val \cap Low(7), 7 * count, 32)
         IN IF 7 \in rd.val THEN ReadVarInt32Loop(rd.bf, res, count + 1)
            ELSE [bf |-> rd.bf, val |-> res]

\* int count = 1 in place of int count = 0
ReadVarInt32_FromOne(b) == ReadVarInt32Loop(b, {}, 1)

ReadVarInt32(b) == ReadVarInt32Loop(b, {}, 0)

RECURSIVE ReadVarInt64Loop(_, _, _)
ReadVarInt64Loop(b, result, count) ==
    IF count = kMaxVarintBytes THEN [bf |-> b, val |-> result]
    ELSE LET rd == ReadUBitLong(b, 8)
             res == result \cup Shl(rd.val \cap Low(7), 7 * count, 64)
         IN IF 7 \in rd.val THEN ReadVarInt64Loop(rd.bf, res, count + 1)
            ELSE [bf |-> rd.bf, val |-> res]

ReadVarInt64(b) == ReadVarInt64Loop(b, {}, 0)

\* decodes with z >> 1 alone
ReadSignedVarInt32_NoSign(b) ==
    LET rd == ReadVarInt32(b)
    IN [bf |-> rd.bf, val |-> Shr(rd.val, 1)]

ReadSignedVarInt32(b) ==
    LET rd == ReadVarInt32(b)
    IN [bf |-> rd.bf, val |-> ZigZagDecode32(rd.val)]

\* uint32 value = ReadVarInt64();
ReadSignedVarInt64(b) ==
    LET rd == ReadVarInt64(b)
        value == Trunc(rd.val, 32)
    IN [bf |-> rd.bf, val |-> ZigZagDecode64(value)]

\* the while (true) loop of ReadString; st holds the reader b, the caller's
\* memory pStr, iChar and bTooSmall
\* iChar < maxLen in place of iChar < (maxLen - 1)
RECURSIVE ReadStringLoop_Full(_, _, _)
ReadStringLoop_Full(st, maxLen, bLine) ==
    LET rd == ReadChar(st.b)
        val == rd.val
    IN IF val = {} THEN [st EXCEPT !.b = rd.bf]
       ELSE IF bLine /\ val = BitsOf(10) THEN [st EXCEPT !.b = rd.bf]
       ELSE IF st.iChar < maxLen
       THEN ReadStringLoop_Full([st EXCEPT !.b = rd.bf,
                                           !.pStr = StoreByte(st.pStr, st.iChar, val),
                                           !.iChar = st.iChar + 1], maxLen, bLine)
       ELSE ReadStringLoop_Full([st EXCEPT !.b = rd.bf, !.bTooSmall = TRUE], maxLen, bLine)

\* the loop left as soon as the destination is full
RECURSIVE ReadStringLoop_StopWhenFull(_, _, _)
ReadStringLoop_StopWhenFull(st, maxLen, bLine) ==
    LET rd == ReadChar(st.b)
        val == rd.val
    IN IF val = {} THEN [st EXCEPT !.b = rd.bf]
       ELSE IF bLine /\ val = BitsOf(10) THEN [st EXCEPT !.b = rd.bf]
       ELSE IF st.iChar < maxLen - 1
       THEN ReadStringLoop_StopWhenFull([st EXCEPT !.b = rd.bf,
                                                   !.pStr = StoreByte(st.pStr, st.iChar, val),
                                                   !.iChar = st.iChar + 1], maxLen, bLine)
       ELSE [st EXCEPT !.b = rd.bf, !.bTooSmall = TRUE]

RECURSIVE ReadStringLoop(_, _, _)
ReadStringLoop(st, maxLen, bLine) ==
    LET rd == ReadChar(st.b)
        val == rd.val
    IN IF val = {} THEN [st EXCEPT !.b = rd.bf]
       ELSE IF bLine /\ val = BitsOf(10) THEN [st EXCEPT !.b = rd.bf]
       ELSE IF st.iChar < maxLen - 1
       THEN ReadStringLoop([st EXCEPT !.b = rd.bf,
                                      !.pStr = StoreByte(st.pStr, st.iChar, val),
                                      !.iChar = st.iChar + 1], maxLen, bLine)
       ELSE ReadStringLoop([st EXCEPT !.b = rd.bf, !.bTooSmall = TRUE], maxLen, bLine)

\* return !bTooSmall in place of !IsOverflowed() && !bTooSmall
ReadString_TooSmallOnly(b, pStr, maxLen, bLine) ==
    LET st == ReadStringLoop([b |-> b, pStr |-> pStr, iChar |-> 0, bTooSmall |-> FALSE],
                             maxLen, bLine)
    IN [bf |-> st.b,
        pStr |-> StoreByte(st.pStr, st.iChar, {}),
        pOutNumChars |-> st.iChar,
        val |-> ~st.bTooSmall]

\* [bf |-> the reader afterwards, pStr |-> the caller's memory afterwards,
\*  pOutNumChars |-> *pOutNumChars, val |-> the value returned]
ReadString(b, pStr, maxLen, bLine) ==
    LET st == ReadStringLoop([b |-> b, pStr |-> pStr, iChar |-> 0, bTooSmall |-> FALSE],
                             maxLen, bLine)
    IN [bf |-> st.b,
        pStr |-> StoreByte(st.pStr, st.iChar, {}),
        pOutNumChars |-> st.iChar,
        val |-> ~st.b.m_bOverflow /\ ~st.bTooSmall]

\* for (int i = 0; i < numbits; i++) r |= ReadOneBit() << i;
RECURSIVE PeekUBitLongLoop(_, _, _, _)
PeekUBitLongLoop(b, r, i, numbits) ==
    IF i < numbits
    THEN LET rd == ReadOneBit(b)
         IN IF rd.val = {} THEN PeekUBitLongLoop(rd.bf, r, i + 1, numbits)
            ELSE PeekUBitLongLoop(rd.bf, r \cup Shl(rd.val, i, 32), i + 1, numbits)
    ELSE [bf |-> b, val |-> r]

\* bf_read savebf = *this; ... *this = savebf;
PeekUBitLong(b, numbits) ==
    LET savebf == b
        rd == PeekUBitLongLoop(b, {}, 0, numbits)
    IN [bf |-> savebf, val |-> rd.val]

\* for (int i = 0; i < remaining; i++) temp.WriteOneBit(ReadOneBit());
\* temp and the reader point at the same memory; once both have overflowed
\* every further iteration leaves both as they are
RECURSIVE ExciseBitsLoop(_, _, _)
ExciseBitsLoop(b, temp, remaining) ==
    IF remaining > 0 /\ ~(b.m_bOverflow /\ temp.m_bOverflow)
    THEN LET rd == ReadOneBit(b)
             t == IF rd.val = {} THEN WriteOneBit(temp, {}) ELSE WriteOneBit(temp, {0})
         IN ExciseBitsLoop([rd.bf EXCEPT !.data = t.data], t, remaining - 1)
    ELSE b

\* m_nDataBits left as it was
ExciseBits_KeepBits(b, startBit, bitsToRemove) ==
    LET endBit == startBit + bitsToRemove
        remaining == b.m_nDataBits - endBit
        temp == StartWriting(b.data, b.m_nDataBytes, startBit, b.m_nDataBits)
        moved == ExciseBitsLoop(Seek(b, endBit), temp, remaining)
    IN Seek(moved, startBit)

ExciseBits(b, startBit, bitsToRemove) ==
    LET endBit == startBit + bitsToRemove
        remaining == b.m_nDataBits - endBit
        temp == StartWriting(b.data, b.m_nDataBytes, startBit, b.m_nDataBits)
        moved == ExciseBitsLoop(Seek(b, endBit), temp, remaining)
        r == Seek(moved, startBit)
    IN [r EXCEPT !.m_nDataBits = r.m_nDataBits - bitsToRemove,
                 !.m_nDataBytes = (r.m_nDataBits - bitsToRemove) \div 8]

\* What the build makes of the undefined operations of CompareBitsAt: env.wrap
\* tells whether a shift by 32 leaves the value as it is (the count taken
\* modulo 32) or gives 0; env.past1 and env.past2 are the dwords found past the
\* end of the two buffers.
ShlCount(v, count, env) ==
    IF count >= 32 THEN (IF env.wrap THEN v ELSE {}) ELSE Shl(v, count, 32)

\* LoadLittleDWord(base, i) on a buffer of MemWords dwords
LoadLittleDWord(data, i, past) == IF i < MemWords THEN LoadDWord(data, i) ELSE past

\* x of one round: the dwords at p1 and q1 of this reader's buffer against
\* those at p2 and q2 of the other's
CompareBitsRound(b, other, p1, q1, p2, q2, iStartBit1, iStartBit2, env) ==
    Xor(Xor(Shr(LoadLittleDWord(b.data, p1, env.past1), iStartBit1),
            ShlCount(LoadLittleDWord(b.data, q1, env.past1), 32 - iStartBit1, env)),
        Xor(Shr(LoadLittleDWord(other.data, p2, env.past2), iStartBit2),
            ShlCount(LoadLittleDWord(other.data, q2, env.past2), 32 - iStartBit2, env)))

\* while (remaining > 32) and the masked last round; st holds pData1, pData2,
\* pData1End, pData2End and the two start bits
RECURSIVE CompareBitsLoop(_, _, _, _, _, _)
CompareBitsLoop(b, other, st, pData1, pData2, remaining) ==
    IF remaining > 32
    THEN LET x == CompareBitsRound(b, other, pData1, pData1 + 1, pData2, pData2 + 1,
                                   st.iStartBit1, st.iStartBit2, st.env)
         IN IF x # {} THEN x
            ELSE CompareBitsLoop(b, other, st, pData1 + 1, pData2 + 1, remaining - 32)
    ELSE CompareBitsRound(b, other, pData1, st.pData1End, pData2, st.pData2End,
                          st.iStartBit1, st.iStartBit2, st.env)
           \cap g_ExtraMasks(remaining)

\* the int returned
CompareBitsAt(b, offset, other, otherOffset, numBits, env) ==
    IF numBits = 0 THEN {}
    ELSE IF offset + numBits > b.m_nDataBits \/ otherOffset + numBits > other.m_nDataBits
    THEN {0}
    ELSE LET pData1 == offset \div 32
             pData2 == otherOffset \div 32
             st == [iStartBit1 |-> offset % 32,
                    iStartBit2 |-> otherOffset % 32,
                    pData1End |-> pData1 + ((offset + numBits - 1) \div 32),
                    pData2End |-> pData2 + ((otherOffset + numBits - 1) \div 32),
                    env |-> env]
         IN CompareBitsLoop(b, other, st, pData1, pData2, numBits)

\* char str[2048]
sizeof_str == 2048

\* [bf |-> the reader afterwards, pOverflow |-> *pOverflow,
\*  pRet |-> the nChars + 1 bytes of the string allocated]
ReadAndAllocateString(b) ==
    LET r == ReadString(b, {}, sizeof_str, FALSE)
        nChars == r.pOutNumChars
        bOverflow == ~r.val
    IN [bf |-> r.bf, pOverflow |-> bOverflow, pRet |-> Peek(r.pStr, 0, 8 * (nChars + 1))]

(***************************************************************************)
(* Floats.  A float is kept as its exact value, sign and magnitude:        *)
(* [neg, num, den] is (-1)^neg * num / den, so that -0.0 and 0.0 differ.   *)
(* The products the codec forms with its power-of-two denominators are     *)
(* exact in float arithmetic for the magnitudes written here.              *)
(***************************************************************************)
Flt(neg, num, den) == [neg |-> neg, num |-> num, den |-> den]

SNum(f) == IF f.neg THEN -f.num ELSE f.num

\* f <= g
FltLE(f, g) == SNum(f) * g.den <= SNum(g) * f.den

FltNeg(f) == [f EXCEPT !.neg = ~f.neg]

\* (int)fabs(f)
IntFabs(f) == f.num \div f.den

\* abs((int)(f * k))
AbsIntMul(f, k) == (f.num * k) \div f.den

\* the int of a comparison
IntOfBool(c) == IF c THEN 1 ELSE 0

\* the number a bit set below 2^31 stands for
RECURSIVE NatOf(_)
NatOf(s) == IF s = {} THEN 0
            ELSE LET i == CHOOSE j \in s : TRUE IN Pow2(i) + NatOf(s \ {i})

(***************************************************************************)
(* Quantized coordinates.  The widths are the protocol constants of        *)
(* coordsize.h.                                                            *)
(***************************************************************************)
COORD_INTEGER_BITS == 14
COORD_FRACTIONAL_BITS == 5
COORD_INTEGER_BITS_MP == 11
COORD_FRACTIONAL_BITS_MP_LOWPRECISION == 3

\* (1 << COORD_FRACTIONAL_BITS) and 1.0 / COORD_DENOMINATOR, and the low
\* precision pair
COORD_DENOMINATOR == Pow2(COORD_FRACTIONAL_BITS)
COORD_RESOLUTION == Flt(FALSE, 1, COORD_DENOMINATOR)
COORD_DENOMINATOR_LOWPRECISION == Pow2(COORD_FRACTIONAL_BITS_MP_LOWPRECISION)
COORD_RESOLUTION_LOWPRECISION == Flt(FALSE, 1, COORD_DENOMINATOR_LOWPRECISION)

\* uninit is what the read of bInBounds in its own initializer yields
WriteBitCoordMP(b, f, bIntegral, bLowPrecision, uninit) ==
    LET signBit == IntOfBool(FltLE(f, IF bLowPrecision THEN COORD_RESOLUTION_LOWPRECISION
                                                       ELSE COORD_RESOLUTION))
        intVal == IntFabs(f)
        fractVal == IF bLowPrecision
                    THEN AbsIntMul(f, COORD_DENOMINATOR_LOWPRECISION)
                           % COORD_DENOMINATOR_LOWPRECISION
                    ELSE AbsIntMul(f, COORD_DENOMINATOR) % COORD_DENOMINATOR
        bInBounds == intVal < Pow2(IF uninit THEN COORD_INTEGER_BITS_MP
                                             ELSE COORD_INTEGER_BITS)
        intBits == IF bInBounds THEN COORD_INTEGER_BITS_MP ELSE COORD_INTEGER_BITS
        fractBits == IF bLowPrecision THEN COORD_FRACTIONAL_BITS_MP_LOWPRECISION
                                      ELSE COORD_FRACTIONAL_BITS
        w == IF bIntegral
             THEN IF intVal # 0
                  THEN [bits |-> (intVal - 1) * 8 + signBit * 4 + 2 + IntOfBool(bInBounds),
                        numbits |-> 3 + intBits]
                  ELSE [bits |-> IntOfBool(bInBounds), numbits |-> 2]
             ELSE IF intVal # 0
                  THEN [bits |-> (intVal - 1) * 8 + signBit * 4 + 2 + IntOfBool(bInBounds)
                                   + fractVal * Pow2(3 + intBits),
                        numbits |-> 3 + intBits + fractBits]
                  ELSE [bits |-> fractVal * 8 + signBit * 4 + IntOfBool(bInBounds),
                        numbits |-> 3 + fractBits]
    IN WriteUBitLong(b, BitsOf(w.bits), w.numbits)

\* writes the sign bit whether or not a part is present
WriteBitCoord_AlwaysSign(b, f) ==
    LET signBit == IntOfBool(FltLE(f, FltNeg(COORD_RESOLUTION)))
        intVal == IntFabs(f)
        fractVal == AbsIntMul(f, COORD_DENOMINATOR) % COORD_DENOMINATOR
        b1 == WriteOneBit(b, BitsOf(intVal))
        b2 == WriteOneBit(b1, BitsOf(fractVal))
        b3 == WriteOneBit(b2, BitsOf(signBit))
        b4 == IF intVal # 0
              THEN WriteUBitLong(b3, BitsOf(intVal - 1), COORD_INTEGER_BITS) ELSE b3
    IN IF fractVal # 0
       THEN WriteUBitLong(b4, BitsOf(fractVal), COORD_FRACTIONAL_BITS) ELSE b4

WriteBitCoord(b, f) ==
    LET signBit == IntOfBool(FltLE(f, FltNeg(COORD_RESOLUTION)))
        intVal == IntFabs(f)
        fractVal == AbsIntMul(f, COORD_DENOMINATOR) % COORD_DENOMINATOR
        b1 == WriteOneBit(b, BitsOf(intVal))
        b2 == WriteOneBit(b1, BitsOf(fractVal))
    IN IF intVal # 0 \/ fractVal # 0
       THEN LET b3 == WriteOneBit(b2, BitsOf(signBit))
                b4 == IF intVal # 0
                      THEN WriteUBitLong(b3, BitsOf(intVal - 1), COORD_INTEGER_BITS)
                      ELSE b3
            IN IF fractVal # 0
               THEN WriteUBitLong(b4, BitsOf(fractVal), COORD_FRACTIONAL_BITS)
               ELSE b4
       ELSE b2

\* [bf |-> the reader afterwards, val |-> the float returned]; this one
\* takes the integer field as it is read, without the + 1
ReadBitCoord_NoBias(b) ==
    LET r1 == ReadOneBit(b)
        r2 == ReadOneBit(r1.bf)
    IN IF r1.val # {} \/ r2.val # {}
       THEN LET r3 == ReadOneBit(r2.bf)
                r4 == IF r1.val # {} THEN ReadUBitLong(r3.bf, COORD_INTEGER_BITS)
                      ELSE [bf |-> r3.bf, val |-> {}]
                intval == IF r1.val # {} THEN NatOf(r4.val) ELSE 0
                r5 == IF r2.val # {} THEN ReadUBitLong(r4.bf, COORD_FRACTIONAL_BITS)
                      ELSE [bf |-> r4.bf, val |-> {}]
                fractval == IF r2.val # {} THEN NatOf(r5.val) ELSE 0
            IN [bf |-> r5.bf,
                val |-> Flt(r3.val # {}, intval * COORD_DENOMINATOR + fractval,
                            COORD_DENOMINATOR)]
       ELSE [bf |-> r2.bf, val |-> Flt(FALSE, 0, 1)]

\* value = intval + ((float)fractval * COORD_RESOLUTION), negated on signbit
ReadBitCoord(b) ==
    LET r1 == ReadOneBit(b)
        r2 == ReadOneBit(r1.bf)
    IN IF r1.val # {} \/ r2.val # {}
       THEN LET r3 == ReadOneBit(r2.bf)
                r4 == IF r1.val # {} THEN ReadUBitLong(r3.bf, COORD_INTEGER_BITS)
                      ELSE [bf |-> r3.bf, val |-> {}]
                intval == IF r1.val # {} THEN NatOf(r4.val) + 1 ELSE 0
                r5 == IF r2.val # {} THEN ReadUBitLong(r4.bf, COORD_FRACTIONAL_BITS)
                      ELSE [bf |-> r4.bf, val |-> {}]
                fractval == IF r2.val # {} THEN NatOf(r5.val) ELSE 0
            IN [bf |-> r5.bf,
                val |-> Flt(r3.val # {}, intval * COORD_DENOMINATOR + fractval,
                            COORD_DENOMINATOR)]
       ELSE [bf |-> r2.bf, val |-> Flt(FALSE, 0, 1)]

\* numbits_table[i] of ReadBitCoordMP
numbits_table(i) ==
    <<COORD_FRACTIONAL_BITS,
      COORD_FRACTIONAL_BITS,
      COORD_FRACTIONAL_BITS + COORD_INTEGER_BITS,
      COORD_FRACTIONAL_BITS + COORD_INTEGER_BITS_MP,
      COORD_FRACTIONAL_BITS_MP_LOWPRECISION,
      COORD_FRACTIONAL_BITS_MP_LOWPRECISION,
      COORD_FRACTIONAL_BITS_MP_LOWPRECISION + COORD_INTEGER_BITS,
      COORD_FRACTIONAL_BITS_MP_LOWPRECISION + COORD_INTEGER_BITS_MP>>[i + 1]

\* the float at byte offset (flags & 4) + bLowPrecision * 8 of mul_table
mul_table(flags, bLowPrecision) ==
    Flt(2 \in flags, 1, IF bLowPrecision THEN Pow2(COORD_FRACTIONAL_BITS_MP_LOWPRECISION)
                                         ELSE Pow2(COORD_FRACTIONAL_BITS))

\* (int)bits * multiply
ReadBitCoordMP(b, bIntegral, bLowPrecision) ==
    LET r1 == ReadUBitLong(b, 3 - IntOfBool(bIntegral))
        flags == r1.val
        multiply == mul_table(flags, bLowPrecision)
        r2 == ReadUBitLong(r1.bf, numbits_table(NatOf(flags \cap {0, 1})
                                                  + IntOfBool(bLowPrecision) * 4))
        bits == r2.val
        fractBitsMP == Shr(bits, COORD_INTEGER_BITS_MP)
        intMaskMP == Low(COORD_INTEGER_BITS_MP)
        selectNotMP == Sub(flags \cap {0}, {0}, 32)
        fractBits == Add(Sub(Shr(bits, COORD_INTEGER_BITS), fractBitsMP, 32) \cap selectNotMP,
                         fractBitsMP, 32)
        intMask == Add(Sub(Low(COORD_INTEGER_BITS), intMaskMP, 32) \cap selectNotMP,
                       intMaskMP, 32)
        intPart == Add(bits \cap intMask, {0}, 32)
        intBitsLow == Shl(intPart, COORD_FRACTIONAL_BITS_MP_LOWPRECISION, 32)
        selectNotLow == Sub(BitsOf(IntOfBool(bLowPrecision)), {0}, 32)
        intBits == Add(Sub(Shl(intPart, COORD_FRACTIONAL_BITS, 32), intBitsLow, 32)
                         \cap selectNotLow,
                       intBitsLow, 32)
        res == IF 1 \in flags THEN fractBits \cup intBits ELSE bits
    IN [bf |-> r2.bf, val |-> Flt(multiply.neg, NatOf(res), multiply.den)]

\* a Vector or QAngle
Vector(x, y, z) == [x |-> x, y |-> y, z |-> z]

\* every axis written, with no flags before them
WriteBitVec3Coord_Ungated(b, fa) ==
    WriteBitCoord(WriteBitCoord(WriteBitCoord(b, fa.x), fa.y), fa.z)

WriteBitVec3Coord(b, fa) ==
    LET xflag == FltLE(COORD_RESOLUTION, fa.x) \/ FltLE(fa.x, FltNeg(COORD_RESOLUTION))
        yflag == FltLE(COORD_RESOLUTION, fa.y) \/ FltLE(fa.y, FltNeg(COORD_RESOLUTION))
        zflag == FltLE(COORD_RESOLUTION, fa.z) \/ FltLE(fa.z, FltNeg(COORD_RESOLUTION))
        b1 == WriteOneBit(b, BitsOf(IntOfBool(xflag)))
        b2 == WriteOneBit(b1, BitsOf(IntOfBool(yflag)))
        b3 == WriteOneBit(b2, BitsOf(IntOfBool(zflag)))
        b4 == IF xflag THEN WriteBitCoord(b3, fa.x) ELSE b3
        b5 == IF yflag THEN WriteBitCoord(b4, fa.y) ELSE b4
    IN IF zflag THEN WriteBitCoord(b5, fa.z) ELSE b5

\* WriteBitVec3Coord(Vector(fa.x, fa.y, fa.z))
WriteBitAngles(b, fa) == WriteBitVec3Coord(b, Vector(fa.x, fa.y, fa.z))

\* fa.Init(0, 0, 0), then the axes whose flag is set
ReadBitVec3Coord(b) ==
    LET r1 == ReadOneBit(b)
        r2 == ReadOneBit(r1.bf)
        r3 == ReadOneBit(r2.bf)
        zero == [bf |-> r3.bf, val |-> Flt(FALSE, 0, 1)]
        rx == IF r1.val # {} THEN ReadBitCoord(r3.bf) ELSE zero
        ry == IF r2.val # {} THEN ReadBitCoord(rx.bf) ELSE [zero EXCEPT !.bf = rx.bf]
        rz == IF r3.val # {} THEN ReadBitCoord(ry.bf) ELSE [zero EXCEPT !.bf = ry.bf]
    IN [bf |-> rz.bf, val |-> Vector(rx.val, ry.val, rz.val)]

\* fa.Init(tmp.x, tmp.y, tmp.z)
ReadBitAngles(b) ==
    LET tmp == ReadBitVec3Coord(b)
    IN [bf |-> tmp.bf, val |-> Vector(tmp.val.x, tmp.val.y, tmp.val.z)]

(***************************************************************************)
(* Quantized normals: a sign bit and NORMAL_FRACTIONAL_BITS of magnitude.  *)
(***************************************************************************)
NORMAL_FRACTIONAL_BITS == 11

\* ((1 << NORMAL_FRACTIONAL_BITS) - 1) and 1.0 / NORMAL_DENOMINATOR
NORMAL_DENOMINATOR == Pow2(NORMAL_FRACTIONAL_BITS) - 1
NORMAL_RESOLUTION == Flt(FALSE, 1, NORMAL_DENOMINATOR)

WriteBitNormal(b, f) ==
    LET signBit == IntOfBool(FltLE(f, FltNeg(NORMAL_RESOLUTION)))
        product == AbsIntMul(f, NORMAL_DENOMINATOR)
        fractVal == IF product > NORMAL_DENOMINATOR THEN NORMAL_DENOMINATOR ELSE product
        b1 == WriteOneBit(b, BitsOf(signBit))
    IN WriteUBitLong(b1, BitsOf(fractVal), NORMAL_FRACTIONAL_BITS)

WriteBitVec3Normal(b, fa) ==
    WriteBitNormal(WriteBitNormal(WriteBitNormal(b, fa.x), fa.y), fa.z)

\* (float)fractVal * NORMAL_RESOLUTION, negated on signBit
ReadBitNormal(b) ==
    LET r1 == ReadOneBit(b)
        r2 == ReadUBitLong(r1.bf, NORMAL_FRACTIONAL_BITS)
    IN [bf |-> r2.bf, val |-> Flt(r1.val # {}, NatOf(r2.val), NORMAL_DENOMINATOR)]

\* sqrt(f) for f >= 0, kept as its radicand; a negative radicand is the root
\* of a negative number
Sqrt(neg, f) == [neg |-> neg, radicand |-> f]

\* 1.0f - (a * a + b * b) for two floats over NORMAL_DENOMINATOR
OneMinusSumSq(a, b) ==
    [neg |-> a.num * a.num + b.num * b.num > NORMAL_DENOMINATOR * NORMAL_DENOMINATOR,
     num |-> LET d == NORMAL_DENOMINATOR * NORMAL_DENOMINATOR - a.num * a.num - b.num * b.num
             IN IF d < 0 THEN -d ELSE d,
     den |-> NORMAL_DENOMINATOR * NORMAL_DENOMINATOR]

\* fa[2] = sqrt(1.0f - sumSq) whatever sumSq is
ReadBitVec3Normal_NoClamp(b) ==
    LET r1 == ReadOneBit(b)
        r2 == ReadOneBit(r1.bf)
        zero == Flt(FALSE, 0, NORMAL_DENOMINATOR)
        rx == IF r1.val # {} THEN ReadBitNormal(r2.bf) ELSE [bf |-> r2.bf, val |-> zero]
        ry == IF r2.val # {} THEN ReadBitNormal(rx.bf) ELSE [bf |-> rx.bf, val |-> zero]
        zNegative == ReadOneBit(ry.bf)
    IN [bf |-> zNegative.bf,
        val |-> Vector(rx.val, ry.val, Sqrt(zNegative.val # {}, OneMinusSumSq(rx.val, ry.val)))]

\* 0.0f is kept over the denominator of the normals
ReadBitVec3Normal(b) ==
    LET r1 == ReadOneBit(b)
        r2 == ReadOneBit(r1.bf)
        zero == Flt(FALSE, 0, NORMAL_DENOMINATOR)
        rx == IF r1.val # {} THEN ReadBitNormal(r2.bf) ELSE [bf |-> r2.bf, val |-> zero]
        ry == IF r2.val # {} THEN ReadBitNormal(rx.bf) ELSE [bf |-> rx.bf, val |-> zero]
        zNegative == ReadOneBit(ry.bf)
        rest == OneMinusSumSq(rx.val, ry.val)
        sumSqBelowOne == ~rest.neg /\ rest.num # 0
    IN [bf |-> zNegative.bf,
        val |-> Vector(rx.val, ry.val,
                       Sqrt(zNegative.val # {}, IF sumSqBelowOne THEN rest ELSE zero))]

(***************************************************************************)
(* Input values.                                                           *)
(***************************************************************************)
\* unsigned values of numbits bits
UVals(n) == {{}, {0}, Low(n), {n - 1}, {i \in Low(n) : i % 2 = 1}, Trunc(BitsOf(300), n)}

\* int32 values representable in numbits bits, in two's complement
SVals(n) == {{}, Low(n - 1), (n - 1)..31, Low(32), {i \in Low(n - 1) : i % 2 = 0}}
              \cup (IF n >= 4 THEN {Neg(BitsOf(5), 32)} ELSE {})

U32Vals == {Low(k) : k \in 0..32} \cup {{k} : k \in 0..31} \cup {BitsOf(300)}

U64Vals == {Low(k) : k \in 0..64} \cup {{k} : k \in 0..63} \cup {{0, 35}, {14, 63}}

S32Vals == {Low(k) : k \in 0..32} \cup {k..31 : k \in 0..31} \cup {{k} : k \in 0..30}
             \cup {Neg(BitsOf(5), 32)}

S64Vals == {Low(k) : k \in 0..64} \cup {k..63 : k \in 0..63} \cup {{k} : k \in 0..62}

(***************************************************************************)
(* Observations: the last call, its arguments and what it returned.        *)
(***************************************************************************)
NoAlt == [data |-> {}, cur |-> -1]

Call(op, val, n, start) ==
    [op |-> op, val |-> val, n |-> n, start |-> start, ret |-> {}, fast |-> FALSE, alt |-> NoAlt]

\* a ReadString call: the string the stream was written from, maxLen, bLine,
\* the cursor it started at, *pOutNumChars
StrCall(op, pStr, maxLen, bLine, start) ==
    [op |-> op, val |-> pStr, n |-> maxLen, line |-> bLine, start |-> start,
     ret |-> {}, len |-> 0]

(***************************************************************************)
(* CThreadedTCPSocket: the send queue, its two auto-reset events and the   *)
(* send thread.  Buffers are numbered in the order they are allocated.  The *)
(* sections between csLock.Lock() and csLock.Unlock() are the only places  *)
(* that touch m_SendDatas and do not block, so each is one step.           *)
(***************************************************************************)
\* bool g_bHandleTimeouts = true
g_bHandleTimeouts == TRUE

\* the threads that call Send / SendChunks
Callers == {"c1", "c2"}

\* CThreadedTCPSocket() and Init: both events unsignalled, nothing queued,
\* the send thread resumed at the top of SendThreadFn.  The fields after
\* callers record what has happened: buffers allocated, the order they were
\* queued, handed to WSASend and removed in, the sends the system has not
\* completed yet and those it has, and the checks that have failed.
NewSocket ==
    [m_SendDatas |-> <<>>,
     m_hReadyToSendEvent |-> FALSE,
     m_hSendCompletionEvent |-> FALSE,
     m_hExitThreadsEvent |-> FALSE,
     m_bWaitingForSendCompletion |-> FALSE,
     m_bErrorSignal |-> FALSE,
     sendThread |-> "WaitForMultipleObjects",
     pSendData |-> 0,
     callers |-> [c \in Callers |-> "idle"],
     allocated |-> 0,
     enqueued |-> <<>>,
     submitted |-> <<>>,
     inFlight |-> {},
     completed |-> {},
     removed |-> <<>>,
     failed |-> {}]

\* HandleError(int errorCode, const char* pErrorString)
HandleError(s) == [s EXCEPT !.m_hExitThreadsEvent = TRUE, !.m_bErrorSignal = TRUE]

\* the new buffer put at the head of the list
InternalSend_AddToHead(s) ==
    LET pSendData == s.allocated + 1
    IN [s EXCEPT !.allocated = pSendData,
                 !.m_SendDatas = <<pSendData>> \o @,
                 !.enqueued = Append(@, pSendData),
                 !.m_hReadyToSendEvent = TRUE]

\* InternalSend with a payload: malloc, then AddToTail and SetEvent under
\* the lock
InternalSend(s) ==
    LET pSendData == s.allocated + 1
    IN [s EXCEPT !.allocated = pSendData,
                 !.m_SendDatas = Append(@, pSendData),
                 !.enqueued = Append(@, pSendData),
                 !.m_hReadyToSendEvent = TRUE]

\* the ready-to-send handle waited on whatever the flag says
nHandles_All(s) == 3

\* int nHandles = ARRAYSIZE(handles); if (m_bWaitingForSendCompletion) --nHandles;
nHandles(s) == IF s.m_bWaitingForSendCompletion THEN 2 ELSE 3

\* WaitForMultipleObjects(nHandles, handles, FALSE, SEND_KEEPALIVE_INTERVAL):
\* the signalled handle of the smallest index, or the timeout
WaitForMultipleObjects(s) ==
    IF s.m_hExitThreadsEvent THEN "WAIT_OBJECT_0"
    ELSE IF s.m_hSendCompletionEvent THEN "WAIT_OBJECT_0 + 1"
    ELSE IF nHandles(s) = 3 /\ s.m_hReadyToSendEvent THEN "WAIT_OBJECT_0 + 2"
    ELSE "WAIT_TIMEOUT"

\* one pass of the loop of SendThreadFn up to the call of a handler; an
\* auto-reset event is reset by the wait it satisfies
SendThreadFn(s) ==
    LET waitValue == WaitForMultipleObjects(s)
    IN CASE waitValue = "WAIT_OBJECT_0" -> [s EXCEPT !.sendThread = "exited"]
         [] waitValue = "WAIT_OBJECT_0 + 1" ->
               [s EXCEPT !.m_hSendCompletionEvent = FALSE,
                         !.sendThread = "HandleSendCompletionEvent"]
         [] waitValue = "WAIT_OBJECT_0 + 2" ->
               [s EXCEPT !.m_hReadyToSendEvent = FALSE,
                         !.sendThread = "HandleReadyToSendEvent"]
         [] waitValue = "WAIT_TIMEOUT" ->
               [s EXCEPT !.sendThread =
                    IF g_bHandleTimeouts THEN "HandleTimeout" ELSE "WaitForMultipleObjects"]

\* SendThread_HandleTimeout up to the test of count
SendThread_HandleTimeout(s) ==
    LET count == Len(s.m_SendDatas)
    IN [s EXCEPT !.sendThread = IF count = 0 THEN "InternalSend" ELSE "WaitForMultipleObjects"]

\* a check of the code that does not hold when it is reached
Fails(s, ok, what) == IF ok THEN s.failed ELSE s.failed \cup {what}

\* SendThread_HandleSendCompletionEvent up to the lock; ok tells whether
\* WSAGetOverlappedResult succeeded with the byte count asked for
SendThread_HandleSendCompletionEvent(s, ok) ==
    LET t == [s EXCEPT !.failed = Fails(s, s.m_bWaitingForSendCompletion,
                                        "Assert(m_bWaitingForSendCompletion)"),
                       !.m_bWaitingForSendCompletion = FALSE]
    IN IF ok THEN [t EXCEPT !.sendThread = "Remove"]
       ELSE [HandleError(t) EXCEPT !.sendThread = "exited"]

\* the section of SendThread_HandleSendCompletionEvent under the lock
RemoveHead(s) ==
    LET some == Len(s.m_SendDatas) > 0
        rest == IF some THEN Tail(s.m_SendDatas) ELSE <<>>
    IN [s EXCEPT !.failed = Fails(s, some, "m_SendDatas.Head() of an empty list"),
                 !.removed = IF some THEN Append(@, Head(s.m_SendDatas)) ELSE @,
                 !.m_SendDatas = rest,
                 !.m_bWaitingForSendCompletion = FALSE,
                 !.m_hReadyToSendEvent = IF Len(rest) > 0 THEN TRUE ELSE @,
                 !.sendThread = "WaitForMultipleObjects"]

\* the section of SendThread_HandleReadyToSendEvent under the lock; with an
\* empty list the element read is whatever memory holds: garbage is any
\* buffer number, 0 for none
SendThread_HandleReadyToSendEvent(s, garbage) ==
    LET some == Len(s.m_SendDatas) > 0
        t == [s EXCEPT !.failed = Fails(s, ~s.m_bWaitingForSendCompletion,
                                        "Assert(!m_bWaitingForSendCompletion)")]
    IN [t EXCEPT !.failed = Fails(t, some, "m_SendDatas.Head() of an empty list"),
                 !.pSendData = IF some THEN Head(s.m_SendDatas) ELSE garbage,
                 !.m_bWaitingForSendCompletion = TRUE,
                 !.sendThread = "WSASend"]

\* WSASend and the test of what it returned: 0 (the send is complete and the
\* event of m_SendOverlapped signalled), WSA_IO_PENDING, or an error
WSASend(s, ret) ==
    LET sent == [s EXCEPT !.submitted = Append(@, s.pSendData),
                          !.sendThread = "WaitForMultipleObjects"]
    IN CASE ret = "0" ->
               [sent EXCEPT !.completed = @ \cup {s.pSendData},
                            !.m_hSendCompletionEvent = TRUE]
         [] ret = "WSA_IO_PENDING" -> [sent EXCEPT !.inFlight = @ \cup {s.pSendData}]
         [] OTHER -> [HandleError(s) EXCEPT !.sendThread = "exited"]

\* the system completes a pending send and signals the event
SendCompletes(s, pSendData) ==
    [s EXCEPT !.inFlight = @ \ {pSendData},
              !.completed = @ \cup {pSendData},
              !.m_hSendCompletionEvent = TRUE]

(***************************************************************************)
(* SpecRT: one value written at some cursor of a writer bound to the whole *)
(* buffer, then read back by a reader started at the same bit.             *)
(***************************************************************************)
InitRT ==
    /\ mem \in {{}, Low(MemBits)}
    /\ \E c \in 0..(MemBits - 33) : bw = Fields(StartWriting(mem, MemBytes, c, -1))
    /\ br = Unbound
    /\ pc = "write"
    /\ obs = Call("none", {}, 0, 0)
    /\ sum = 0
    /\ log = <<>>
    /\ rlog = <<>>
    /\ steps = 0
    /\ dst = {}
    /\ g_BitBufErrorHandler = NoHandler
    /\ sock = NewSocket

Wrote(r, o) ==
    /\ mem' = r.data
    /\ bw' = Fields(r)
    /\ obs' = o
    /\ pc' = "read"
    /\ UNCHANGED <<br, sum, log, rlog, steps, dst, g_BitBufErrorHandler, sock>>

HasRead(rd) ==
    /\ br' = Fields(rd.bf)
    /\ obs' = [obs EXCEPT !.ret = rd.val]
    /\ pc' = "done"
    /\ UNCHANGED <<mem, bw, sum, log, rlog, steps, dst, g_BitBufErrorHandler, sock>>

Rebound == StartReading(mem, MemBytes, obs.start, -1)

RT_WriteUBitLong ==
    /\ pc = "write"
    /\ \E n \in 1..32 : \E v \in UVals(n) :
          Wrote(WriteUBitLong(View(bw, mem), v, n), Call("U", v, n, bw.m_iCurBit))

RT_ReadUBitLong ==
    /\ pc = "read" /\ obs.op = "U"
    /\ HasRead(ReadUBitLong(Rebound, obs.n))

RT_WriteSBitLong ==
    /\ pc = "write"
    /\ \E n \in 1..32 : \E v \in SVals(n) :
          Wrote(WriteSBitLong(View(bw, mem), v, n), Call("S", v, n, bw.m_iCurBit))

RT_ReadSBitLong ==
    /\ pc = "read" /\ obs.op = "S"
    /\ HasRead(ReadSBitLong(Rebound, obs.n))

\* what the per-byte branch would have left where the byte-aligned one ran
Other(r) == [data |-> r.data, cur |-> r.m_iCurBit]

RT_WriteVarInt32 ==
    /\ pc = "write"
    /\ \E v \in U32Vals :
          LET b == View(bw, mem)
          IN Wrote(WriteVarInt32(b, v),
                   [Call("V32", v, 0, bw.m_iCurBit) EXCEPT
                       !.fast = IsFastVarInt32(b),
                       !.alt = IF IsFastVarInt32(b) THEN Other(WriteVarInt32Loop(b, v))
                               ELSE NoAlt])

RT_ReadVarInt32 ==
    /\ pc = "read" /\ obs.op = "V32"
    /\ HasRead(ReadVarInt32(Rebound))

RT_WriteVarInt64 ==
    /\ pc = "write"
    /\ \E v \in U64Vals :
          LET b == View(bw, mem)
          IN Wrote(WriteVarInt64(b, v),
                   [Call("V64", v, 0, bw.m_iCurBit) EXCEPT
                       !.fast = IsFastVarInt64(b),
                       !.alt = IF IsFastVarInt64(b) THEN Other(WriteVarInt64Loop(b, v))
                               ELSE NoAlt])

RT_ReadVarInt64 ==
    /\ pc = "read" /\ obs.op = "V64"
    /\ HasRead(ReadVarInt64(Rebound))

RT_WriteSignedVarInt32 ==
    /\ pc = "write"
    /\ \E v \in S32Vals :
          Wrote(WriteSignedVarInt32(View(bw, mem), v),
                [Call("SV32", v, 0, bw.m_iCurBit) EXCEPT !.fast = IsFastVarInt32(View(bw, mem))])

RT_ReadSignedVarInt32 ==
    /\ pc = "read" /\ obs.op = "SV32"
    /\ HasRead(ReadSignedVarInt32(Rebound))

RT_WriteSignedVarInt64 ==
    /\ pc = "write"
    /\ \E v \in S64Vals :
          Wrote(WriteSignedVarInt64(View(bw, mem), v),
                [Call("SV64", v, 0, bw.m_iCurBit) EXCEPT !.fast = IsFastVarInt64(View(bw, mem))])

RT_ReadSignedVarInt64 ==
    /\ pc = "read" /\ obs.op = "SV64"
    /\ HasRead(ReadSignedVarInt64(Rebound))

NextRT ==
    \/ RT_WriteUBitLong
    \/ RT_ReadUBitLong
    \/ RT_WriteSBitLong
    \/ RT_ReadSBitLong
    \/ RT_WriteVarInt32
    \/ RT_ReadVarInt32
    \/ RT_WriteVarInt64
    \/ RT_ReadVarInt64
    \/ RT_WriteSignedVarInt32
    \/ RT_ReadSignedVarInt32
    \/ RT_WriteSignedVarInt64
    \/ RT_ReadSignedVarInt64

SpecRT == InitRT /\ [][NextRT]_vars

\* C1: a value representable in numBits bits, written with WriteUBitLong or
\* WriteSBitLong at any cursor with room for it, is what ReadUBitLong resp.
\* ReadSBitLong of numBits bits returns from that cursor.
C1_RoundTripBits ==
    (pc = "done" /\ obs.op \in {"U", "S"} /\ ~bw.m_bOverflow)
        => (obs.ret = obs.val /\ ~br.m_bOverflow /\ br.m_iCurBit = bw.m_iCurBit)

C1_Witness ==
    /\ pc = "done" /\ obs.op = "S" /\ obs.n = 32 /\ obs.val = {31}
    /\ obs.start % 32 = 17 /\ ~bw.m_bOverflow /\ obs.ret = {31}

\* C6: WriteVarInt32(v) then ReadVarInt32() from the same cursor returns v on the
\* byte-aligned branch and on the per-byte branch, and where the byte-aligned
\* branch runs the per-byte branch would leave the same buffer and cursor.
C6_RoundTripVarInt32 ==
    (pc = "done" /\ obs.op = "V32" /\ ~bw.m_bOverflow)
        => /\ obs.ret = obs.val
           /\ br.m_iCurBit = bw.m_iCurBit
           /\ obs.fast => (obs.alt.data = mem /\ obs.alt.cur = bw.m_iCurBit)

C6_Witness ==
    /\ pc = "done" /\ obs.op = "V32" /\ ~obs.fast /\ ~bw.m_bOverflow
    /\ obs.val = Low(32) /\ obs.ret = Low(32) /\ obs.start % 8 = 3

\* C7: WriteVarInt64(v) then ReadVarInt64() from the same cursor returns v on
\* both branches of the write.
C7_RoundTripVarInt64 ==
    (pc = "done" /\ obs.op = "V64" /\ ~bw.m_bOverflow) => obs.ret = obs.val

\* C9: WriteSignedVarInt32(v) then ReadSignedVarInt32() returns v.
C9_RoundTripSignedVarInt32 ==
    (pc = "done" /\ obs.op = "SV32" /\ ~bw.m_bOverflow)
        => (obs.ret = obs.val /\ br.m_iCurBit = bw.m_iCurBit)

C9_Witness ==
    /\ pc = "done" /\ obs.op = "SV32" /\ ~bw.m_bOverflow
    /\ obs.val = {31} /\ obs.ret = {31} /\ br.m_iCurBit = obs.start + 40

\* C10: WriteSignedVarInt64(v) then ReadSignedVarInt64() returns v when the
\* zig-zag encoding of v needs more than 32 bits.
C10_RoundTripSignedVarInt64 ==
    (pc = "done" /\ obs.op = "SV64" /\ ~bw.m_bOverflow
        /\ ZigZagEncode64(obs.val) \cap (32..63) # {})
        => obs.ret = obs.val

\* the number of significant bits of v, and the bytes its varint takes
BitsNeeded(v) == IF v = {} THEN 0 ELSE 1 + CHOOSE i \in v : \A j \in v : j <= i

VarIntBytes(v) == IF v = {} THEN 1 ELSE (BitsNeeded(v) + 6) \div 7

\* C8: WriteVarInt32(v) and WriteVarInt64(v) advance the cursor by
\* 8 * max(1, ceil(bits_needed(v) / 7)) bits, which is 8 * ByteSizeVarInt32(v)
\* resp. 8 * ByteSizeVarInt64(v) and at most 5 resp. 10 bytes, on both branches;
\* every byte written but the last has bit 0x80 set and the last has it clear.
C8_VarIntLength ==
    (pc \in {"read", "done"} /\ obs.op \in {"V32", "V64"} /\ ~bw.m_bOverflow)
        => LET size == IF obs.op = "V32" THEN ByteSizeVarInt32(obs.val)
                       ELSE ByteSizeVarInt64(obs.val)
           IN /\ bw.m_iCurBit - obs.start = 8 * VarIntBytes(obs.val)
              /\ size = VarIntBytes(obs.val)
              /\ size <= (IF obs.op = "V32" THEN kMaxVarint32Bytes ELSE kMaxVarintBytes)
              /\ \A i \in 0..(size - 1) :
                    (obs.start + 8 * i + 7 \in mem) <=> (i < size - 1)

(***************************************************************************)
(* SpecSeq: a sequence of fields written from cursor 0, then read back in  *)
(* the same order by a reader bound to the same buffer.                    *)
(***************************************************************************)
Field(kind, val, n) == [kind |-> kind, val |-> val, n |-> n, after |-> 0]

UFields == {Field("U", BitsOf(300), 9), Field("U", {0}, 1), Field("U", Low(32), 32),
            Field("U", {}, 7)}

SFields == {Field("S", Neg(BitsOf(5), 32), 4), Field("S", {31}, 32), Field("S", Low(32), 1),
            Field("S", BitsOf(77), 13)}

VFields == {Field("V", v, 0) : v \in {{}, Low(7), {7}, {14}, Low(28), Low(32)}}

InitSeq ==
    /\ mem \in {{}, Low(MemBits)}
    /\ bw = Fields(StartWriting(mem, MemBytes, 0, -1))
    /\ br = Unbound
    /\ pc = "write"
    /\ obs = Call("none", {}, 0, 0)
    /\ sum = 0
    /\ log = <<>>
    /\ rlog = <<>>
    /\ steps = 0
    /\ dst = {}
    /\ g_BitBufErrorHandler = NoHandler
    /\ sock = NewSocket

Appended(r, f) ==
    /\ mem' = r.data
    /\ bw' = Fields(r)
    /\ log' = Append(log, [f EXCEPT !.after = r.m_iCurBit])
    /\ UNCHANGED <<br, pc, obs, sum, rlog, steps, dst, g_BitBufErrorHandler, sock>>

Seq_WriteUBitLong ==
    /\ pc = "write" /\ Len(log) < MaxFields
    /\ \E f \in UFields : Appended(WriteUBitLong(View(bw, mem), f.val, f.n), f)

Seq_WriteSBitLong ==
    /\ pc = "write" /\ Len(log) < MaxFields
    /\ \E f \in SFields : Appended(WriteSBitLong(View(bw, mem), f.val, f.n), f)

Seq_WriteVarInt32 ==
    /\ pc = "write" /\ Len(log) < MaxFields
    /\ \E f \in VFields : Appended(WriteVarInt32(View(bw, mem), f.val), f)

\* bf_read(pData, nBytes) on the writer's buffer
Seq_StartReading ==
    /\ pc = "write" /\ log # <<>>
    /\ br' = Fields(StartReading(mem, MemBytes, 0, -1))
    /\ pc' = "read"
    /\ UNCHANGED <<mem, bw, obs, sum, log, rlog, steps, dst, g_BitBufErrorHandler, sock>>

NextField == log[Len(rlog) + 1]

Taken(rd) ==
    /\ br' = Fields(rd.bf)
    /\ rlog' = Append(rlog, rd.val)
    /\ pc' = IF Len(rlog) + 1 = Len(log) THEN "done" ELSE "read"
    /\ UNCHANGED <<mem, bw, obs, sum, log, steps, dst, g_BitBufErrorHandler, sock>>

Seq_ReadUBitLong ==
    /\ pc = "read" /\ NextField.kind = "U"
    /\ Taken(ReadUBitLong(View(br, mem), NextField.n))

Seq_ReadSBitLong ==
    /\ pc = "read" /\ NextField.kind = "S"
    /\ Taken(ReadSBitLong(View(br, mem), NextField.n))

Seq_ReadVarInt32 ==
    /\ pc = "read" /\ NextField.kind = "V"
    /\ Taken(ReadVarInt32(View(br, mem)))

NextSeq ==
    \/ Seq_WriteUBitLong
    \/ Seq_WriteSBitLong
    \/ Seq_WriteVarInt32
    \/ Seq_StartReading
    \/ Seq_ReadUBitLong
    \/ Seq_ReadSBitLong
    \/ Seq_ReadVarInt32

SpecSeq == InitSeq /\ [][NextSeq]_vars

FieldWidth(f) == IF f.kind = "V" THEN 8 * ByteSizeVarInt32(f.val) ELSE f.n

\* C5: in a sequence of unsigned, signed and varint32 fields written from
\* cursor 0 without overflow every write advances the cursor by the width of
\* its field (8 bits per varint byte); reading the same kinds in the same
\* order returns the written values and ends at the writer's cursor; 300 in 9
\* bits, -5 in 4 bits, varint 16384 come back as 300, -5, 16384 after 37 bits.
C5_SequenceRoundTrip ==
    ~bw.m_bOverflow =>
        /\ \A i \in 1..Len(log) :
              log[i].after = (IF i = 1 THEN 0 ELSE log[i - 1].after) + FieldWidth(log[i])
        /\ \A i \in 1..Len(rlog) :
              /\ rlog[i] = log[i].val
              /\ (i = Len(rlog)) => br.m_iCurBit = log[i].after
        /\ pc = "done" => (br.m_iCurBit = bw.m_iCurBit /\ ~br.m_bOverflow)
        /\ (/\ pc = "done" /\ Len(log) = 3
            /\ log[1].kind = "U" /\ log[1].n = 9 /\ log[1].val = BitsOf(300)
            /\ log[2].kind = "S" /\ log[2].n = 4 /\ log[2].val = Neg(BitsOf(5), 32)
            /\ log[3].kind = "V" /\ log[3].val = BitsOf(16384))
           => (rlog = <<BitsOf(300), Neg(BitsOf(5), 32), BitsOf(16384)>>
                 /\ br.m_iCurBit = 37)

C5_Witness ==
    /\ pc = "done" /\ Len(log) = 3 /\ ~bw.m_bOverflow
    /\ log[1].kind = "U" /\ log[1].n = 9 /\ log[1].val = BitsOf(300)
    /\ log[2].kind = "S" /\ log[2].n = 4 /\ log[2].val = Neg(BitsOf(5), 32)
    /\ log[3].kind = "V" /\ log[3].val = BitsOf(16384)
    /\ rlog = <<BitsOf(300), Neg(BitsOf(5), 32), BitsOf(16384)>>
    /\ br.m_iCurBit = 37 /\ bw.m_iCurBit = 37

(***************************************************************************)
(* Spec: a writer and a reader constructed on the caller's buffer, and any *)
(* MaxSteps calls of their operations.                                     *)
(***************************************************************************)
\* bf_write(pData, nBytes, nBits) and bf_read(pData, nBytes, nBits) on a buffer
\* holding every third bit set
Init ==
    /\ mem = {p \in Low(MemBits) : p % 3 = 0}
    /\ \E a \in {<<4, -1>>, <<MemBytes, 40>>, <<MemBytes, -1>>} :
          bw = Fields(StartWriting(mem, a[1], 0, a[2]))
    /\ br = Fields(StartReading(mem, MemBytes, 0, -1))
    /\ pc = "run"
    /\ obs = Call("none", {}, 0, 0)
    /\ sum = 0
    /\ log = <<>>
    /\ rlog = <<>>
    /\ steps = 0
    /\ dst = {}
    /\ g_BitBufErrorHandler = NoHandler
    /\ sock = NewSocket

Running == pc = "run" /\ steps < MaxSteps

\* a call on the writer that left it as r, having put out `width` bits
DidWrite(r, o, width) ==
    /\ mem' = r.data
    /\ bw' = Fields(r)
    /\ obs' = o
    /\ sum' = IF sum < 0 THEN sum ELSE sum + width
    /\ steps' = steps + 1
    /\ UNCHANGED <<br, pc, log, rlog, dst, g_BitBufErrorHandler, sock>>

\* a call on the writer that moved its cursor
DidMove(r, o, tracked) ==
    /\ bw' = Fields(r)
    /\ obs' = o
    /\ sum' = IF tracked THEN 0 ELSE -1
    /\ steps' = steps + 1
    /\ UNCHANGED <<mem, br, pc, log, rlog, dst, g_BitBufErrorHandler, sock>>

\* a call on the reader
DidRead(rd, o) ==
    /\ br' = Fields(rd.bf)
    /\ obs' = [o EXCEPT !.ret = rd.val]
    /\ steps' = steps + 1
    /\ UNCHANGED <<mem, bw, pc, sum, log, rlog, dst, g_BitBufErrorHandler, sock>>

Flag(ok) == IF ok THEN {0} ELSE {}

W_StartWriting ==
    /\ Running
    /\ \E a \in {<<4, 0, -1>>, <<MemBytes, 8, -1>>, <<MemBytes, 0, 40>>} :
          DidMove(StartWriting(mem, a[1], a[2], a[3]),
                  Call("W_StartWriting", {}, a[3], a[2]), a[2] = 0)

W_Reset ==
    /\ Running
    /\ DidMove(Reset(View(bw, mem)), Call("W_Reset", {}, 0, 0), TRUE)

W_SeekToBit ==
    /\ Running
    /\ \E bitPos \in {13, MemBits + 1} :
          DidMove(SeekToBit(View(bw, mem), bitPos),
                  Call("W_SeekToBit", {}, 0, bitPos), FALSE)

W_WriteUBitLong ==
    /\ Running
    /\ \E n \in {1, 8, 32} :
          DidWrite(WriteUBitLong(View(bw, mem), Low(n), n),
                   Call("W_WriteUBitLong", Low(n), n, bw.m_iCurBit), n)

W_WriteSBitLong ==
    /\ Running
    /\ \E a \in {<<4, Neg(BitsOf(5), 32)>>, <<32, {31}>>} :
          DidWrite(WriteSBitLong(View(bw, mem), a[2], a[1]),
                   Call("W_WriteSBitLong", a[2], a[1], bw.m_iCurBit), a[1])

W_WriteVarInt32 ==
    /\ Running
    /\ \E v \in {{}, Low(32)} :
          LET b == View(bw, mem)
              r == WriteVarInt32(b, v)
          IN DidWrite(r, Call("W_WriteVarInt32", v, 0, bw.m_iCurBit),
                      IF IsFastVarInt32(b) THEN r.m_iCurBit - b.m_iCurBit
                      ELSE 8 * ByteSizeVarInt32(v))

W_WriteVarInt64 ==
    /\ Running
    /\ \E v \in {{14}, Low(64)} :
          LET b == View(bw, mem)
              r == WriteVarInt64(b, v)
          IN DidWrite(r, Call("W_WriteVarInt64", v, 0, bw.m_iCurBit),
                      IF IsFastVarInt64(b) THEN r.m_iCurBit - b.m_iCurBit
                      ELSE 8 * ByteSizeVarInt64(v))

\* WriteBits of nBits one bits from a source at address addr modulo 4
W_WriteBits ==
    /\ Running
    /\ \E a \in {<<1, 0>>, <<32, 0>>, <<40, 1>>, <<64, 0>>} :
          LET r == WriteBits(View(bw, mem), Low(a[1]), a[2], a[1])
          IN DidWrite(r.bf, [Call("W_WriteBits", Low(a[1]), a[1], bw.m_iCurBit)
                                EXCEPT !.ret = Flag(r.val)], a[1])

R_StartReading ==
    /\ Running
    /\ \E a \in {<<MemBytes, 0, -1>>, <<4, 3, 20>>} :
          DidRead([bf |-> StartReading(mem, a[1], a[2], a[3]), val |-> {}],
                  Call("R_StartReading", {}, a[3], a[2]))

R_Reset ==
    /\ Running
    /\ DidRead([bf |-> ReadReset(View(br, mem)), val |-> {}], Call("R_Reset", {}, 0, 0))

R_ReadUBitLong ==
    /\ Running
    /\ \E n \in {1, 32} :
          DidRead(ReadUBitLong(View(br, mem), n), Call("R_ReadUBitLong", {}, n, br.m_iCurBit))

R_ReadSBitLong ==
    /\ Running
    /\ DidRead(ReadSBitLong(View(br, mem), 8), Call("R_ReadSBitLong", {}, 8, br.m_iCurBit))

\* reached from ReadUBitVar, which has read six bits and found an encoding type
R_ReadUBitVarInternal ==
    /\ Running
    /\ br.m_iCurBit >= 4
    /\ \E encodingType \in {1, 3} :
          DidRead(ReadUBitVarInternal(View(br, mem), encodingType),
                  Call("R_ReadUBitVarInternal", {}, encodingType, br.m_iCurBit))

R_ReadVarInt32 ==
    /\ Running
    /\ DidRead(ReadVarInt32(View(br, mem)), Call("R_ReadVarInt32", {}, 0, br.m_iCurBit))

R_ReadVarInt64 ==
    /\ Running
    /\ DidRead(ReadVarInt64(View(br, mem)), Call("R_ReadVarInt64", {}, 0, br.m_iCurBit))

Next ==
    \/ W_StartWriting
    \/ W_Reset
    \/ W_SeekToBit
    \/ W_WriteUBitLong
    \/ W_WriteSBitLong
    \/ W_WriteVarInt32
    \/ W_WriteVarInt64
    \/ W_WriteBits
    \/ R_StartReading
    \/ R_Reset
    \/ R_ReadUBitLong
    \/ R_ReadSBitLong
    \/ R_ReadUBitVarInternal
    \/ R_ReadVarInt32
    \/ R_ReadVarInt64

Spec == Init /\ [][Next]_vars

WriterCalls == {"W_WriteUBitLong", "W_WriteSBitLong", "W_WriteVarInt32", "W_WriteVarInt64",
                "W_WriteBits", "W_SeekToBit"}

ReaderCalls == {"R_ReadUBitLong", "R_ReadSBitLong", "R_ReadUBitVarInternal",
                "R_ReadVarInt32", "R_ReadVarInt64"}

\* C2: writes that total exactly the capacity the writer was bound with leave
\* the overflow flag clear; a further write of one bit sets it, and the buffer
\* bits below the cursor of that failing call keep their values.
C2_OverflowBoundary ==
    [][/\ (sum' >= 0 /\ sum' <= bw'.m_nDataBits) => ~bw'.m_bOverflow
       /\ (/\ sum = bw.m_nDataBits /\ ~bw.m_bOverflow
           /\ obs'.op \in {"W_WriteUBitLong", "W_WriteBits"} /\ obs'.n = 1)
          => /\ bw'.m_bOverflow
             /\ \A p \in 0..(bw.m_iCurBit - 1) : (p \in mem') <=> (p \in mem)]_vars

C2_Witness ==
    /\ obs.op = "W_WriteBits" /\ obs.n = 1 /\ obs.ret = {}
    /\ sum = bw.m_nDataBits + 1 /\ bw.m_iCurBit = bw.m_nDataBits
    /\ bw.m_bOverflow /\ steps = 3

\* C3: once the overflow flag of a writer or reader is set, every call on it
\* other than Reset, StartWriting and StartReading leaves the flag set and the
\* buffer as it was, and a read returns zero.
C3_StickyOverflow ==
    [][/\ (bw.m_bOverflow /\ obs'.op \in WriterCalls)
          => (bw'.m_bOverflow /\ mem' = mem)
       /\ (br.m_bOverflow /\ obs'.op \in ReaderCalls)
          => (br'.m_bOverflow /\ mem' = mem /\ obs'.ret = {})]_vars

\* C4: while the overflow flag is clear the cursor of the writer lies within
\* 0..capacityBits and that of the reader within 0..dataBits.
C4_CursorInRange ==
    /\ ~bw.m_bOverflow => (0 <= bw.m_iCurBit /\ bw.m_iCurBit <= bw.m_nDataBits)
    /\ ~br.m_bOverflow => (0 <= br.m_iCurBit /\ br.m_iCurBit <= br.m_nDataBits)

\* a call on the reader that left it as rd.bf and returned rd.val
Returned(rd, o) ==
    /\ mem' = rd.bf.data
    /\ br' = Fields(rd.bf)
    /\ obs' = [o EXCEPT !.ret = rd.val]
    /\ pc' = "done"
    /\ UNCHANGED <<bw, sum, log, rlog, steps, dst, g_BitBufErrorHandler, sock>>

\* a string read into the caller's memory
ReturnedString(rd, o) ==
    /\ mem' = rd.bf.data
    /\ br' = Fields(rd.bf)
    /\ obs' = [o EXCEPT !.ret = Flag(rd.val), !.len = rd.pOutNumChars]
    /\ dst' = rd.pStr
    /\ pc' = "done"
    /\ UNCHANGED <<bw, sum, log, rlog, steps, g_BitBufErrorHandler, sock>>

\* the byte at bit position `at` of the buffer
ByteAt(at) == Peek(mem, at, 8)

\* the byte of the caller's memory at index i
DstByte(i) == Peek(dst, 8 * i, 8)

(***************************************************************************)
(* SpecBulk: a block of bits or a string written at some cursor of a       *)
(* writer bound to the whole buffer, then read back into the caller's      *)
(* memory by a reader started at the same bit.                             *)
(***************************************************************************)
\* size of the caller's destination memory, in bytes
DstBytes == MemBytes + 2

InitBulk ==
    /\ mem \in {{}, Low(MemBits)}
    /\ \E c \in 0..(MemBits - 1) : bw = Fields(StartWriting(mem, MemBytes, c, -1))
    /\ br = Unbound
    /\ pc = "write"
    /\ obs = Call("none", {}, 0, 0)
    /\ sum = 0
    /\ log = <<>>
    /\ rlog = <<>>
    /\ steps = 0
    /\ dst = Low(8 * DstBytes)
    /\ g_BitBufErrorHandler = NoHandler
    /\ sock = NewSocket

Bulk_SetBitBufErrorHandler ==
    /\ pc = "write" /\ ~g_BitBufErrorHandler.fn
    /\ g_BitBufErrorHandler' = SetBitBufErrorHandler(g_BitBufErrorHandler, TRUE)
    /\ UNCHANGED <<mem, bw, br, pc, obs, sum, log, rlog, steps, dst, sock>>

\* source memory of nBits bits, rounded up to whole bytes
BulkSources(nBits) ==
    LET whole == 8 * ((nBits + 7) \div 8)
    IN {{i \in Low(whole) : i % 2 = 0}, {i \in Low(whole) : i % 3 # 1}}

BulkCounts == {1, 7, 8, 13, 32, 33, 40, 45, 64, 69}

Bulk_WriteBits ==
    /\ pc = "write"
    /\ \E nBits \in BulkCounts : \E src \in BulkSources(nBits) : \E addr \in {0, 1, 3} :
          LET r == WriteBits(View(bw, mem), src, addr, nBits)
          IN /\ mem' = r.bf.data
             /\ bw' = Fields(r.bf)
             /\ g_BitBufErrorHandler' = CallErrorHandler(g_BitBufErrorHandler, r.err)
             /\ obs' = [Call("WriteBits", src, nBits, bw.m_iCurBit) EXCEPT !.ret = Flag(r.val)]
             /\ pc' = "read"
             /\ UNCHANGED <<br, sum, log, rlog, steps, dst, sock>>

Bulk_ReadBits ==
    /\ pc = "read" /\ obs.op = "WriteBits"
    /\ \E addr \in {0, 2} :
          LET r == ReadBits(Rebound, dst, addr, obs.n)
          IN /\ br' = Fields(r.bf)
             /\ dst' = r.out
             /\ pc' = "done"
             /\ UNCHANGED <<mem, bw, obs, sum, log, rlog, steps, g_BitBufErrorHandler, sock>>

\* 'A', 'B', newline, 0x80 and 0xFF
BulkChars == [A |-> BitsOf(65), B |-> BitsOf(66), nl |-> BitsOf(10), neg |-> {7}, ff |-> Low(8)]

BulkStrings ==
    LET c == BulkChars
    IN {nullptr, CString(<<>>), CString(<<c.A>>), CString(<<c.A, c.B>>),
        CString(<<c.ff, c.neg, c.A>>), CString(<<c.A, c.nl, c.B, c.A>>),
        CString([i \in 1..(MemBytes - 1) |-> IF i % 2 = 1 THEN c.B ELSE c.ff])}

Bulk_WriteString ==
    /\ pc = "write"
    /\ \E pStr \in BulkStrings :
          LET r == WriteString(View(bw, mem), pStr)
          IN /\ mem' = r.bf.data
             /\ bw' = Fields(r.bf)
             /\ obs' = [Call("WriteString", pStr, Len(pStr.chars), bw.m_iCurBit)
                           EXCEPT !.ret = Flag(r.val)]
             /\ pc' = "read"
             /\ UNCHANGED <<br, sum, log, rlog, steps, dst, g_BitBufErrorHandler, sock>>

Bulk_ReadString ==
    /\ pc = "read" /\ obs.op = "WriteString"
    /\ \E maxLen \in {1, 2, 3, 4, DstBytes - 1} : \E bLine \in BOOLEAN :
          ReturnedString(ReadString(Rebound, dst, maxLen, bLine),
                         StrCall("ReadString", obs.val, maxLen, bLine, obs.start))

Bulk_ReadAndAllocateString ==
    /\ pc = "read" /\ obs.op = "WriteString"
    /\ LET r == ReadAndAllocateString(Rebound)
       IN /\ br' = Fields(r.bf)
          /\ dst' = r.pRet
          /\ obs' = [StrCall("ReadAndAllocateString", obs.val, sizeof_str, FALSE, obs.start)
                        EXCEPT !.ret = Flag(r.pOverflow)]
          /\ pc' = "done"
          /\ UNCHANGED <<mem, bw, sum, log, rlog, steps, g_BitBufErrorHandler, sock>>

NextBulk ==
    \/ Bulk_SetBitBufErrorHandler
    \/ Bulk_WriteBits
    \/ Bulk_ReadBits
    \/ Bulk_WriteString
    \/ Bulk_ReadString
    \/ Bulk_ReadAndAllocateString

SpecBulk == InitBulk /\ [][NextBulk]_vars

\* C13: a WriteBits of more bits than the capacity leaves past the cursor
\* returns false and sets the overflow flag, calls the installed error handler
\* once with BITBUFERROR_BUFFER_OVERRUN (no handler installed: no call), and
\* leaves the cursor and every bit of the buffer as they were.
C13_WriteBitsOverrun ==
    [][(pc = "write" /\ obs'.op = "WriteBits" /\ bw.m_iCurBit + obs'.n > bw.m_nDataBits)
         => /\ obs'.ret = Flag(FALSE)
            /\ bw'.m_bOverflow
            /\ bw'.m_iCurBit = bw.m_iCurBit
            /\ mem' = mem
            /\ g_BitBufErrorHandler'.fn = g_BitBufErrorHandler.fn
            /\ g_BitBufErrorHandler'.calls =
                  IF g_BitBufErrorHandler.fn
                  THEN Append(g_BitBufErrorHandler.calls, "BITBUFERROR_BUFFER_OVERRUN")
                  ELSE g_BitBufErrorHandler.calls]_vars

C13_Witness ==
    /\ pc = "read" /\ obs.op = "WriteBits" /\ obs.n = 33 /\ obs.start = MemBits - 32
    /\ obs.ret = Flag(FALSE) /\ bw.m_bOverflow /\ bw.m_iCurBit = MemBits - 32
    /\ mem = {} /\ g_BitBufErrorHandler.calls = <<"BITBUFERROR_BUFFER_OVERRUN">>

\* C14: WriteBits(src, nBits) at any cursor with room for nBits bits, then
\* ReadBits(dst, nBits) from the same cursor, leaves the first nBits bits of
\* src in dst, and both cursors nBits further, for every alignment of the
\* cursor in its word, of the source and of the destination.
C14_BulkRoundTrip ==
    (pc = "done" /\ obs.op = "WriteBits" /\ obs.start + obs.n <= bw.m_nDataBits)
        => /\ Peek(dst, 0, obs.n) = Peek(obs.val, 0, obs.n)
           /\ bw.m_iCurBit = obs.start + obs.n
           /\ br.m_iCurBit = obs.start + obs.n
           /\ obs.ret = Flag(TRUE)
           /\ ~bw.m_bOverflow /\ ~br.m_bOverflow

\* the dword loop at bit 21 of a word, with 5 bits left for the tail
C14_Witness ==
    /\ pc = "done" /\ obs.op = "WriteBits" /\ obs.n = 69 /\ obs.start = 21
    /\ mem # {} /\ Peek(dst, 0, 69) = {i \in Low(69) : i % 3 # 1}
    /\ br.m_iCurBit = 90 /\ ~br.m_bOverflow

\* C15: WriteString(s) that does not overflow appends the bytes of s in order
\* and one zero byte, 8 * (len(s) + 1) bits in all, and touches no other bit;
\* WriteString(null) appends the zero byte alone; the value returned is true
\* exactly when the writer is not overflowed after the call.
C15_WriteString ==
    (pc \in {"read", "done"} /\ obs.op \in {"WriteString", "ReadString"})
        => LET chars == obs.val.chars
               L == Len(chars)
               end == obs.start + 8 * (L + 1)
               outside == {q \in Low(MemBits) : q < obs.start \/ q >= end}
           IN /\ (obs.op = "WriteString") => (obs.ret = Flag(~bw.m_bOverflow))
              /\ ~bw.m_bOverflow
                   => /\ bw.m_iCurBit = end
                      /\ \A i \in 1..L : ByteAt(obs.start + 8 * (i - 1)) = chars[i]
                      /\ ByteAt(obs.start + 8 * L) = {}
                      /\ (outside \cap mem = {} \/ outside \subseteq mem)
                      /\ obs.val.null => bw.m_iCurBit = obs.start + 8

C15_Witness ==
    /\ pc = "read" /\ obs.op = "WriteString" /\ obs.start = 13 /\ 0 \in mem
    /\ obs.val = CString(<<Low(8), {7}, BitsOf(65)>>)
    /\ obs.ret = Flag(TRUE) /\ bw.m_iCurBit = 45 /\ ~bw.m_bOverflow

\* C16: on a stream holding L non-zero bytes and a zero byte, ReadString(dst,
\* maxLen) with maxLen >= 1 (in line mode: no newline among the bytes) stores
\* the first min(L, maxLen - 1) bytes and a zero byte, leaves the bytes of dst
\* from maxLen on as they were, sets the output length to min(L, maxLen - 1),
\* and returns false exactly when L > maxLen - 1.
C16_ReadStringTruncation ==
    (/\ pc = "done" /\ obs.op = "ReadString" /\ ~bw.m_bOverflow
     /\ obs.line => (\A i \in 1..Len(obs.val.chars) : obs.val.chars[i] # BulkChars.nl))
        => LET chars == obs.val.chars
               L == Len(chars)
               k == IF L < obs.n - 1 THEN L ELSE obs.n - 1
           IN /\ \A i \in 1..k : DstByte(i - 1) = chars[i]
              /\ DstByte(k) = {}
              /\ \A i \in obs.n..(DstBytes - 1) : DstByte(i) = Low(8)
              /\ obs.len = k
              /\ (obs.ret = Flag(FALSE)) <=> (L > obs.n - 1)
              /\ ~br.m_bOverflow
              /\ br.m_iCurBit = bw.m_iCurBit

\* L = maxLen - 1: not a truncation
C16_Witness ==
    /\ pc = "done" /\ obs.op = "ReadString" /\ ~bw.m_bOverflow /\ obs.start = 13
    /\ obs.val = CString(<<Low(8), {7}, BitsOf(65)>>) /\ obs.n = 4
    /\ obs.ret = Flag(TRUE) /\ obs.len = 3
    /\ DstByte(0) = Low(8) /\ DstByte(2) = BitsOf(65) /\ DstByte(3) = {}

\* the number of whole bytes of valid data from the bit `start` on that come
\* before a terminator
StreamLen(start, bLine) ==
    LET Ends(k) == \/ start + 8 * k + 8 > br.m_nDataBits
                   \/ ByteAt(start + 8 * k) = {}
                   \/ bLine /\ ByteAt(start + 8 * k) = BulkChars.nl
    IN CHOOSE k \in 0..MemBytes : Ends(k) /\ \A j \in 0..(k - 1) : ~Ends(j)

\* C17: the boolean ReadString returns reports truncation and nothing else: it
\* is false exactly when more bytes came before the terminator (or the end of
\* the data) than maxLen - 1, so a read that overflows without truncating is
\* told apart from one that truncates; and ReadAndAllocateString sets
\* *pOverflow only when the stream has overflowed.
C17_TruncationNotOverflow ==
    /\ (pc = "done" /\ obs.op = "ReadString")
          => ((obs.ret = Flag(FALSE)) <=> (StreamLen(obs.start, obs.line) > obs.n - 1))
    /\ (pc = "done" /\ obs.op = "ReadAndAllocateString")
          => ((obs.ret = Flag(TRUE)) => br.m_bOverflow)

(***************************************************************************)
(* SpecRd: a reader bound to a buffer of any contents, and one call on it. *)
(***************************************************************************)
\* buffers: all ones, every third bit, bytes 0x81, bytes 0x80 0x01 0x0A 0x00
RdBuffers ==
    {Low(MemBits),
     {p \in Low(MemBits) : p % 3 = 0},
     {p \in Low(MemBits) : p % 8 \in {0, 7}},
     {p \in Low(MemBits) : p % 32 \in {7, 8, 17, 19}}}

RdStarts == {c \in 0..MemBits : c % 5 = 0 \/ c % 32 = 0 \/ c > MemBits - 10}

\* bf_read(pData, nBytes, nBits), then Seek to a start bit
InitRd ==
    /\ mem \in RdBuffers
    /\ \E c \in RdStarts : \E nBits \in {-1, MemBits - 5} :
          br = Fields(StartReading(mem, MemBytes, c, nBits))
    /\ bw = Unbound
    /\ pc = "read"
    /\ obs = Call("none", {}, 0, 0)
    /\ sum = 0
    /\ log = <<>>
    /\ rlog = <<>>
    /\ steps = 0
    /\ dst = Low(8 * DstBytes)
    /\ g_BitBufErrorHandler = NoHandler
    /\ sock = NewSocket

Rd_ReadVarInt32 ==
    /\ pc = "read"
    /\ Returned(ReadVarInt32(View(br, mem)), Call("ReadVarInt32", {}, 32, br.m_iCurBit))

Rd_ReadVarInt64 ==
    /\ pc = "read"
    /\ Returned(ReadVarInt64(View(br, mem)), Call("ReadVarInt64", {}, 64, br.m_iCurBit))

Rd_ReadString ==
    /\ pc = "read"
    /\ \E maxLen \in {1, 3, DstBytes - 1} : \E bLine \in BOOLEAN :
          ReturnedString(ReadString(View(br, mem), dst, maxLen, bLine),
                         StrCall("ReadString", nullptr, maxLen, bLine, br.m_iCurBit))

Rd_PeekUBitLong ==
    /\ pc = "read"
    /\ \E numbits \in {1, 8, 13, 32} :
          Returned(PeekUBitLong(View(br, mem), numbits),
                   Call("PeekUBitLong", {}, numbits, br.m_iCurBit))

\* the buffer with the bit at `at` flipped; at = -1 leaves it as it is
Flip(data, at) ==
    IF at < 0 THEN data
    ELSE IF at \in data THEN data \ {at} ELSE data \cup {at}

\* <<offset, otherOffset, numBits>>
CmpArgs == {<<0, 0, 8>>, <<0, 3, 32>>, <<5, 5, 20>>, <<5, 8, 27>>, <<5, 8, 41>>, <<7, 1, 64>>,
            <<3, 30, 66>>, <<33, 36, 25>>, <<32, 35, 32>>, <<40, 10, 32>>, <<35, 38, 50>>,
            <<9, 9, MemBits - 9>>, <<60, 60, MemBits - 59>>}

CmpFlips == {-1, 6, 36, 70, MemBits - 1}

\* CompareBitsAt against a reader bound to the same bytes or to a copy of them
\* that differs in one bit
Rd_CompareBitsAt ==
    /\ pc = "read"
    /\ \E a \in CmpArgs : \E at \in CmpFlips : \E nBits \in {-1, MemBits - 5} :
       \E wrap \in BOOLEAN : \E past1 \in {{}, Low(32)} :
          LET other == StartReading(Flip(mem, at), MemBytes, 0, nBits)
              x == CompareBitsAt(View(br, mem), a[1], other, a[2], a[3],
                                 [wrap |-> wrap, past1 |-> past1, past2 |-> {}])
          IN Returned([bf |-> View(br, mem), val |-> x],
                      [Call("CompareBitsAt", {}, a[3], a[1]) EXCEPT
                          !.alt = [data |-> other.data, cur |-> a[2],
                                   m_nDataBits |-> other.m_nDataBits]])

\* <<startBit, bitsToRemove>>
ExciseArgs == {<<0, 0>>, <<0, 32>>, <<5, 1>>, <<5, 13>>, <<32, 8>>, <<40, 37>>,
               <<40, MemBits - 45>>, <<40, MemBits - 39>>}

Rd_ExciseBits ==
    /\ pc = "read"
    /\ \E a \in ExciseArgs :
          Returned([bf |-> ExciseBits(View(br, mem), a[1], a[2]), val |-> {}],
                   Call("ExciseBits", {}, a[2], a[1]))

Rd_ReadBitVec3Normal ==
    /\ pc = "read"
    /\ Returned(ReadBitVec3Normal(View(br, mem)),
                Call("ReadBitVec3Normal", {}, 0, br.m_iCurBit))

NextRd ==
    \/ Rd_ReadVarInt32
    \/ Rd_ReadVarInt64
    \/ Rd_ReadString
    \/ Rd_PeekUBitLong
    \/ Rd_CompareBitsAt
    \/ Rd_ExciseBits
    \/ Rd_ReadBitVec3Normal

SpecRd == InitRd /\ [][NextRd]_vars

\* C11: ReadVarInt32 consumes at most 5 bytes and ReadVarInt64 at most 10; when
\* the 5 resp. 10 bytes at the cursor all lie in the valid data and all have
\* bit 0x80 set, the call returns the groups read, group k at bit 7k of the
\* result, having consumed exactly 40 resp. 80 bits.
C11_VarIntCap ==
    (pc = "done" /\ obs.op \in {"ReadVarInt32", "ReadVarInt64"})
        => LET cap == IF obs.n = 32 THEN kMaxVarint32Bytes ELSE kMaxVarintBytes
               groups == UNION {Shl(ByteAt(obs.start + 8 * k) \cap Low(7), 7 * k, obs.n) :
                                   k \in 0..(cap - 1)}
           IN /\ br.m_iCurBit - obs.start <= 8 * cap
              /\ (/\ obs.start + 8 * cap <= br.m_nDataBits
                  /\ \A k \in 0..(cap - 1) : 7 \in ByteAt(obs.start + 8 * k))
                 => /\ br.m_iCurBit = obs.start + 8 * cap
                    /\ obs.ret = groups
                    /\ ~br.m_bOverflow

C11_Witness ==
    /\ pc = "done" /\ obs.op = "ReadVarInt64" /\ obs.start = 0
    /\ mem = {p \in Low(MemBits) : p % 8 \in {0, 7}}
    /\ br.m_iCurBit = 80 /\ ~br.m_bOverflow
    /\ 63 \in obs.ret /\ 62 \notin obs.ret

\* the whole bytes of valid data from the bit `start` on hold no terminator
NoTerminator(start, bLine) ==
    \A k \in 0..MemBytes :
        (start + 8 * k + 8 <= br.m_nDataBits)
            => (ByteAt(start + 8 * k) # {} /\ (bLine => ByteAt(start + 8 * k) # BitsOf(10)))

\* C12: ReadString on a stream that holds no zero byte (and no newline in line
\* mode) from the cursor on returns false with the overflow flag of the reader
\* set and a zero byte stored within the first maxLen bytes of the destination,
\* whose bytes from maxLen on are as they were.
C12_ReadStringTerminates ==
    (pc = "done" /\ obs.op = "ReadString" /\ NoTerminator(obs.start, obs.line))
        => /\ br.m_bOverflow
           /\ obs.ret = Flag(FALSE)
           /\ obs.len < obs.n
           /\ DstByte(obs.len) = {}
           /\ \A i \in obs.n..(DstBytes - 1) : DstByte(i) = Low(8)

C12_Witness ==
    /\ pc = "done" /\ obs.op = "ReadString" /\ ~obs.line /\ obs.n = DstBytes - 1
    /\ mem = Low(MemBits) /\ obs.start = 5 /\ br.m_nDataBits = MemBits
    /\ br.m_bOverflow /\ obs.ret = Flag(FALSE) /\ obs.len = 11
    /\ DstByte(10) = Low(8) /\ DstByte(11) = {}

\* C18: PeekUBitLong(numBits) returns what ReadUBitLong(numBits) would return
\* from the same state and leaves the cursor, the declared length, the
\* overflow flag and the buffer as they were, also when fewer than numBits
\* bits of valid data are left.
C18_PeekUBitLong ==
    [][(pc = "read" /\ obs'.op = "PeekUBitLong")
         => /\ br' = br
            /\ mem' = mem
            /\ obs'.ret = ReadUBitLong(View(br, mem), obs'.n).val]_vars

\* C19: CompareBitsAt over numBits > 0 bits returns zero exactly when both
\* ranges lie within the declared lengths of their readers and hold the same
\* bits.
C19_CompareBitsAt ==
    (pc = "done" /\ obs.op = "CompareBitsAt")
        => ((obs.ret = {})
              <=> /\ obs.start + obs.n <= br.m_nDataBits
                  /\ obs.alt.cur + obs.n <= obs.alt.m_nDataBits
                  /\ Peek(mem, obs.start, obs.n) = Peek(obs.alt.data, obs.alt.cur, obs.n))

\* C20: on a reader that has not overflowed, ExciseBits(startBit, bitsToRemove)
\* with 0 <= startBit, 0 <= bitsToRemove and startBit + bitsToRemove <= dataBits
\* leaves the bits below startBit as they were, makes every bit i of
\* startBit..(dataBits - bitsToRemove - 1) the old bit i + bitsToRemove, takes
\* bitsToRemove off the declared length and leaves the cursor at startBit.
C20_ExciseBits ==
    [][(/\ pc = "read" /\ obs'.op = "ExciseBits" /\ ~br.m_bOverflow
        /\ obs'.start + obs'.n <= br.m_nDataBits)
         => /\ \A i \in 0..(obs'.start - 1) : (i \in mem') <=> (i \in mem)
            /\ \A i \in obs'.start..(br.m_nDataBits - obs'.n - 1) :
                  (i \in mem') <=> (i + obs'.n \in mem)
            /\ br'.m_nDataBits = br.m_nDataBits - obs'.n
            /\ br'.m_iCurBit = obs'.start
            /\ ~br'.m_bOverflow]_vars

C20_Witness ==
    /\ pc = "done" /\ obs.op = "ExciseBits" /\ obs.start = 5 /\ obs.n = 13
    /\ br.m_nDataBits = MemBits - 13 /\ br.m_iCurBit = 5 /\ ~br.m_bOverflow
    /\ \A i \in 0..4 : (i \in mem) <=> (i % 3 = 0)
    /\ \A i \in 5..(MemBits - 14) : (i \in mem) <=> (i % 3 = 2)

(***************************************************************************)
(* SpecCoord: one quantized float, or one vector of them, written at some  *)
(* cursor and read back by a reader started at the same bit.               *)
(***************************************************************************)
\* magnitudes in 1/256ths: zero, below and at the fractional step, around
\* one, 12.5, the MP integer limit 2048, the integer limit 16384 and past it
CoordMagnitudes ==
    {0, 1, 4, 8, 9, 32, 248, 255, 256, 257, 264, 3200, 3205,
     2047 * 256 + 255, 2048 * 256, 2049 * 256 + 16,
     16383 * 256 + 248, 16383 * 256 + 255, 16384 * 256, 20000 * 256 + 128}

CoordVals == {Flt(neg, num, 256) : neg \in BOOLEAN, num \in CoordMagnitudes}

CoordStarts == {0, 5, 27, 40}

InitCoord ==
    /\ mem \in {{}, Low(MemBits)}
    /\ \E c \in CoordStarts : bw = Fields(StartWriting(mem, MemBytes, c, -1))
    /\ br = Unbound
    /\ pc = "write"
    /\ obs = Call("none", {}, 0, 0)
    /\ sum = 0
    /\ log = <<>>
    /\ rlog = <<>>
    /\ steps = 0
    /\ dst = {}
    /\ g_BitBufErrorHandler = NoHandler
    /\ sock = NewSocket

Cd_WriteBitCoord ==
    /\ pc = "write"
    /\ \E f \in CoordVals :
          Wrote(WriteBitCoord(View(bw, mem), f), Call("BitCoord", f, 0, bw.m_iCurBit))

Cd_ReadBitCoord ==
    /\ pc = "read" /\ obs.op = "BitCoord"
    /\ HasRead(ReadBitCoord(Rebound))

\* bIntegral and bLowPrecision as obs.n carries them
MPFlags(bIntegral, bLowPrecision) == IntOfBool(bIntegral) + 2 * IntOfBool(bLowPrecision)

Cd_WriteBitCoordMP ==
    /\ pc = "write"
    /\ \E f \in CoordVals : \E bIntegral \in BOOLEAN : \E bLowPrecision \in BOOLEAN :
       \E uninit \in BOOLEAN :
          Wrote(WriteBitCoordMP(View(bw, mem), f, bIntegral, bLowPrecision, uninit),
                Call("BitCoordMP", f, MPFlags(bIntegral, bLowPrecision), bw.m_iCurBit))

Cd_ReadBitCoordMP ==
    /\ pc = "read" /\ obs.op = "BitCoordMP"
    /\ HasRead(ReadBitCoordMP(Rebound, obs.n % 2 = 1, obs.n \div 2 = 1))

\* axes of a normal, in 1/256ths: zero, below the step, a half, one, and
\* past one
NormalAxes == {Flt(FALSE, 0, 256), Flt(FALSE, 1, 256), Flt(FALSE, 128, 256),
               Flt(TRUE, 128, 256), Flt(TRUE, 256, 256), Flt(FALSE, 300, 256)}

Cd_WriteBitVec3Normal ==
    /\ pc = "write"
    /\ \E x \in NormalAxes : \E y \in NormalAxes : \E z \in NormalAxes :
          Wrote(WriteBitVec3Normal(View(bw, mem), Vector(x, y, z)),
                Call("BitVec3Normal", Vector(x, y, z), 0, bw.m_iCurBit))

Cd_ReadBitVec3Normal ==
    /\ pc = "read" /\ obs.op = "BitVec3Normal"
    /\ HasRead(ReadBitVec3Normal(Rebound))

\* axes of an angle triple: zero, below the coordinate resolution, at it,
\* and 12.5 of either sign
AngleAxes == {Flt(FALSE, 0, 256), Flt(FALSE, 1, 256), Flt(TRUE, 8, 256),
              Flt(FALSE, 3200, 256), Flt(TRUE, 3200, 256)}

Cd_WriteBitAngles ==
    /\ pc = "write"
    /\ \E x \in AngleAxes : \E y \in AngleAxes : \E z \in AngleAxes :
          Wrote(WriteBitAngles(View(bw, mem), Vector(x, y, z)),
                Call("BitAngles", Vector(x, y, z), 0, bw.m_iCurBit))

Cd_ReadBitAngles ==
    /\ pc = "read" /\ obs.op = "BitAngles"
    /\ HasRead(ReadBitAngles(Rebound))

NextCoord ==
    \/ Cd_WriteBitCoord
    \/ Cd_ReadBitCoord
    \/ Cd_WriteBitCoordMP
    \/ Cd_ReadBitCoordMP
    \/ Cd_WriteBitVec3Normal
    \/ Cd_ReadBitVec3Normal
    \/ Cd_WriteBitAngles
    \/ Cd_ReadBitAngles

SpecCoord == InitCoord /\ [][NextCoord]_vars

\* |a - b| <= 1 / step, for floats a and b
FltWithin(a, b, step) ==
    LET d == SNum(a) * b.den - SNum(b) * a.den
    IN (IF d < 0 THEN -d ELSE d) * step <= a.den * b.den

\* C21: WriteBitCoord(f) puts out [hasInt:1][hasFrac:1], then, if either is
\* set, [sign:1], the 14-bit integer part less one if hasInt and the 5-bit
\* fraction if hasFrac: 2 bits when both parts are zero and otherwise
\* 3 + 14*hasInt + 5*hasFrac bits; ReadBitCoord then ends at the cursor the
\* writer ended at.
C21_BitCoordLayout ==
    (pc \in {"read", "done"} /\ obs.op = "BitCoord")
        => LET f == obs.val
               c == obs.start
               intPart == f.num \div f.den
               fracPart == ((f.num * 32) \div f.den) % 32
               hasInt == IF intPart # 0 THEN 1 ELSE 0
               hasFrac == IF fracPart # 0 THEN 1 ELSE 0
               n == IF hasInt = 0 /\ hasFrac = 0 THEN 2 ELSE 3 + 14 * hasInt + 5 * hasFrac
           IN /\ bw.m_iCurBit = c + n
              /\ (c \in mem) <=> (hasInt = 1)
              /\ ((c + 1) \in mem) <=> (hasFrac = 1)
              /\ n > 2 => (((c + 2) \in mem) <=> (f.neg /\ f.num * 32 >= f.den))
              /\ hasInt = 1 => Peek(mem, c + 3, 14) = Trunc(BitsOf(intPart - 1), 14)
              /\ hasFrac = 1 => Peek(mem, c + 3 + 14 * hasInt, 5) = BitsOf(fracPart)
              /\ pc = "done" => (br.m_iCurBit = bw.m_iCurBit /\ ~br.m_bOverflow)

C21_Witness ==
    /\ pc = "done" /\ obs.op = "BitCoord" /\ obs.val = Flt(TRUE, 3205, 256)
    /\ obs.start = 27 /\ br.m_iCurBit = 27 + 22

\* C22: for f whose integer part is at most 2^14, the largest the 14-bit
\* field (which holds the integer part less one) can carry,
\* ReadBitCoord(WriteBitCoord(f)) is within 1/32 of f, and 0.0 reads back as 0.0.
C22_BitCoordRoundTrip ==
    (pc = "done" /\ obs.op = "BitCoord" /\ obs.val.num \div obs.val.den <= 16384)
        => /\ FltWithin(obs.ret, obs.val, 32)
           /\ (obs.val.num = 0 /\ ~obs.val.neg) => (obs.ret.num = 0 /\ ~obs.ret.neg)

C22_Witness ==
    /\ pc = "done" /\ obs.op = "BitCoord" /\ obs.val = Flt(TRUE, 16383 * 256 + 255, 256)
    /\ obs.ret = Flt(TRUE, 16383 * 32 + 31, 32)

\* C23: ReadBitCoordMP(integral, lowPrecision) after
\* WriteBitCoordMP(f, integral, lowPrecision), for f whose integer part the
\* 14-bit field can carry, ends at the writer's cursor and returns f's sign
\* and magnitude within one step of the chosen precision (1/32, or 1/8 in low
\* precision), or the truncated integer when integral is set.
C23_BitCoordMPRoundTrip ==
    (pc = "done" /\ obs.op = "BitCoordMP" /\ obs.val.num \div obs.val.den <= 16384)
        => /\ br.m_iCurBit = bw.m_iCurBit
           /\ ~br.m_bOverflow
           /\ IF obs.n % 2 = 1
              THEN /\ obs.ret.num = (obs.val.num \div obs.val.den) * obs.ret.den
                   /\ obs.ret.num # 0 => (obs.ret.neg <=> obs.val.neg)
              ELSE /\ FltWithin(obs.ret, obs.val, IF obs.n \div 2 = 1 THEN 8 ELSE 32)
                   /\ obs.ret.num # 0 => (obs.ret.neg <=> obs.val.neg)

\* C24: ReadBitVec3Normal after WriteBitVec3Normal ends at the cursor the
\* writer ended at and returns x and y within one normal quantization step,
\* 1/2047, of the x and y written.
C24_Vec3NormalRoundTrip ==
    (pc = "done" /\ obs.op = "BitVec3Normal" /\ ~bw.m_bOverflow)
        => /\ br.m_iCurBit = bw.m_iCurBit
           /\ FltWithin(obs.ret.x, obs.val.x, 2047)
           /\ FltWithin(obs.ret.y, obs.val.y, 2047)

\* |f| >= COORD_RESOLUTION
AxisPresent(f) == f.num * 32 >= f.den

\* the writer of the written angles, put back at bit `at`
AnglesWriterAt(at) == [View(bw, mem) EXCEPT !.m_iCurBit = at]

C26_Vec3NormalZ ==
    (pc = "done" /\ obs.op = "ReadBitVec3Normal" /\ ~br.m_bOverflow)
        => LET c == obs.start
               zbit == c + 2 + (IF c \in mem THEN 12 ELSE 0)
                             + (IF (c + 1) \in mem THEN 12 ELSE 0)
               x == obs.ret.x
               y == obs.ret.y
               z == obs.ret.z
               sumSq == x.num * x.num + y.num * y.num
               one == 2047 * 2047
           IN /\ x.den = 2047 /\ y.den = 2047
              /\ br.m_iCurBit = zbit + 1
              /\ z.neg <=> (zbit \in mem)
              /\ ~z.radicand.neg
              /\ IF sumSq < one
                 THEN z.radicand.num = one - sumSq /\ z.radicand.den = one
                 ELSE z.radicand.num = 0

C26_Witness ==
    /\ pc = "done" /\ obs.op = "ReadBitVec3Normal" /\ ~br.m_bOverflow
    /\ obs.start = 5 /\ mem = Low(MemBits) /\ br.m_iCurBit = 5 + 27
    /\ obs.ret.x = Flt(TRUE, 2047, 2047) /\ obs.ret.y = Flt(TRUE, 2047, 2047)
    /\ obs.ret.z.neg /\ obs.ret.z.radicand.num = 0

\* ---------------------------------------------------------------------------
\* The frame of a write

\* the bits of a 32-bit mask that are zero
ZeroBits(mask) == (0..31) \ mask

\* the masks a write starting at bit startBit of its word can use
MasksExactAt(startBit) ==
    /\ \A bitsLeft \in 0..32 :
          ZeroBits(g_BitWriteMasks(startBit, bitsLeft))
              = {i \in 0..31 : startBit <= i /\ i < startBit + bitsLeft}
    /\ g_ExtraMasks(startBit) = Low(startBit)
    /\ g_ExtraMasks(32) = Low(32)

\* C27: a successful WriteBits of n bits at cursor c, on the memcpy path, the
\* word shift-and-merge path and the per-byte path (each of them ending in
\* WriteUBitLong calls), leaves every buffer bit below c and every buffer bit
\* at or above c + n as it was, puts the source bits in between and moves the
\* cursor to c + n; g_BitWriteMasks[startBit][bitsLeft] has its zero bits
\* exactly at [startBit, min(startBit + bitsLeft, 32)) and g_ExtraMasks[k] is
\* 2^k - 1 (the tables do not depend on the state: the one-bit writes, which
\* start at every bit of a word, each check the row of their start bit).
C27_WriteFrame ==
    [][(pc = "write" /\ obs'.op = "WriteBits" /\ obs'.ret = Flag(TRUE))
         => /\ \A i \in 0..(MemBits - 1) :
                  (i < bw.m_iCurBit \/ i >= bw.m_iCurBit + obs'.n)
                      => ((i \in mem') <=> (i \in mem))
            /\ Peek(mem', bw.m_iCurBit, obs'.n) = Peek(obs'.val, 0, obs'.n)
            /\ bw'.m_iCurBit = bw.m_iCurBit + obs'.n
            /\ (obs'.n = 1 => MasksExactAt(bw.m_iCurBit % 32))]_vars

\* 45 bits at bit 13 on a buffer of ones: the dword loop merges into two
\* words with 13 bits kept below and, after the byte tail, 38 kept above
C27_Witness ==
    /\ pc = "read" /\ obs.op = "WriteBits" /\ obs.n = 45 /\ obs.start = 13
    /\ obs.ret = Flag(TRUE) /\ bw.m_iCurBit = 58
    /\ \A i \in 0..(MemBits - 1) : (i < 13 \/ i >= 58) => i \in mem
    /\ Peek(mem, 13, 45) = Peek(obs.val, 0, 45)
    /\ Peek(mem, 13, 45) # Low(45)

\* C28: in every state of a reader, after any read, peek, compare or
\* ExciseBits call, m_nDataBits is at most 8 * m_nDataBytes, the relation
\* StartReading asserts of its arguments.
C28_BitsWithinBytes == br.m_nDataBits <= 8 * br.m_nDataBytes

\* the byte ends a string: a zero, or in line mode a newline
IsTerminator(byte, bLine) == byte = {} \/ (bLine /\ byte = BulkChars.nl)

\* C29: when ReadString returns and the reader is not overflowed, the cursor
\* is at the first bit after the first terminating byte (a zero, or a newline
\* in line mode) at or after the bit the call started at, whatever maxLen is
\* and whether or not the result was truncated.
C29_ReadStringConsumes ==
    (pc = "done" /\ obs.op = "ReadString" /\ ~br.m_bOverflow)
        => \E k \in 0..(MemBytes - 1) :
              /\ br.m_iCurBit = obs.start + 8 * k + 8
              /\ br.m_iCurBit <= br.m_nDataBits
              /\ IsTerminator(ByteAt(obs.start + 8 * k), obs.line)
              /\ \A j \in 0..(k - 1) : ~IsTerminator(ByteAt(obs.start + 8 * j), obs.line)

\* bytes 0x80 0x01 0x0A 0x00 read into one byte of room: truncated, and the
\* cursor after the zero
C29_Witness ==
    /\ pc = "done" /\ obs.op = "ReadString" /\ ~br.m_bOverflow
    /\ obs.start = 0 /\ obs.n = 1 /\ ~obs.line
    /\ ByteAt(0) = {7} /\ ByteAt(16) = BulkChars.nl /\ ByteAt(24) = {}
    /\ obs.ret = Flag(FALSE) /\ obs.len = 0
    /\ br.m_iCurBit = 32

(***************************************************************************)
(* SpecSock: a CThreadedTCPSocket with two threads calling SendChunks, its *)
(* send thread, the system completing the overlapped sends, and errors     *)
(* raised by the receive thread.                                           *)
(***************************************************************************)
\* buffers allocated in a run
MaxSendDatas == 3

InitSock ==
    /\ mem = {}
    /\ bw = Unbound
    /\ br = Unbound
    /\ pc = "run"
    /\ obs = Call("none", {}, 0, 0)
    /\ sum = 0
    /\ log = <<>>
    /\ rlog = <<>>
    /\ steps = 0
    /\ dst = {}
    /\ g_BitBufErrorHandler = NoHandler
    /\ sock = NewSocket

SockStep(s) ==
    /\ sock' = s
    /\ UNCHANGED <<mem, bw, br, pc, obs, sum, log, rlog, steps, dst, g_BitBufErrorHandler>>

\* SendChunks: if (CheckErrorSignal()) return false;
Sock_SendChunks ==
    \E c \in Callers :
       /\ sock.callers[c] = "idle" /\ ~sock.m_bErrorSignal
       /\ sock.allocated < MaxSendDatas
       /\ SockStep([sock EXCEPT !.callers[c] = "InternalSend"])

\* InternalSend(pChunks, pChunkLengths, nChunks, true): nothing is queued
\* for a total length of 0
Sock_InternalSend ==
    \E c \in Callers : \E totalLength \in {0, 8} :
       /\ sock.callers[c] = "InternalSend"
       /\ sock.allocated < MaxSendDatas
       /\ SockStep([(IF totalLength = 0 THEN sock ELSE InternalSend(sock))
                       EXCEPT !.callers[c] = "idle"])

Sock_SendThreadFn ==
    /\ sock.sendThread = "WaitForMultipleObjects"
    /\ WaitForMultipleObjects(sock) = "WAIT_TIMEOUT" => sock.allocated < MaxSendDatas
    /\ SockStep(SendThreadFn(sock))

Sock_HandleTimeout ==
    /\ sock.sendThread = "HandleTimeout"
    /\ SockStep(SendThread_HandleTimeout(sock))

\* InternalSend(pBuf, len, 1, false) of the keepalive sentinel
Sock_Keepalive ==
    /\ sock.sendThread = "InternalSend"
    /\ sock.allocated < MaxSendDatas
    /\ SockStep([InternalSend(sock) EXCEPT !.sendThread = "WaitForMultipleObjects"])

Sock_HandleSendCompletionEvent ==
    /\ sock.sendThread = "HandleSendCompletionEvent"
    /\ \E ok \in BOOLEAN : SockStep(SendThread_HandleSendCompletionEvent(sock, ok))

Sock_RemoveHead ==
    /\ sock.sendThread = "Remove"
    /\ SockStep(RemoveHead(sock))

Sock_HandleReadyToSendEvent ==
    /\ sock.sendThread = "HandleReadyToSendEvent"
    /\ \E garbage \in 0..sock.allocated :
          SockStep(SendThread_HandleReadyToSendEvent(sock, garbage))

Sock_WSASend ==
    /\ sock.sendThread = "WSASend"
    /\ \E ret \in {"0", "WSA_IO_PENDING", "SOCKET_ERROR"} : SockStep(WSASend(sock, ret))

Sock_SendCompletes ==
    \E pSendData \in sock.inFlight : SockStep(SendCompletes(sock, pSendData))

\* HandleError called by the receive thread
Sock_RecvThread_HandleError ==
    /\ ~sock.m_bErrorSignal
    /\ SockStep(HandleError(sock))

NextSock ==
    \/ Sock_SendChunks
    \/ Sock_InternalSend
    \/ Sock_SendThreadFn
    \/ Sock_HandleTimeout
    \/ Sock_Keepalive
    \/ Sock_HandleSendCompletionEvent
    \/ Sock_RemoveHead
    \/ Sock_HandleReadyToSendEvent
    \/ Sock_WSASend
    \/ Sock_SendCompletes
    \/ Sock_RecvThread_HandleError

SpecSock == InitSock /\ [][NextSock]_vars

\* p is an initial part of q
IsPrefix(p, q) == Len(p) <= Len(q) /\ \A i \in 1..Len(p) : p[i] = q[i]

\* C30: under every interleaving of the callers of Send / SendChunks, the
\* keepalive timeout, the send thread and the completions, no check of the
\* send thread fails (Assert(!m_bWaitingForSendCompletion) among them, and
\* the head of m_SendDatas is never read from an empty list);
\* SendThread_HandleReadyToSendEvent runs only with m_SendDatas non-empty and
\* every earlier send completed and removed; at most one WSASend is in
\* flight; the buffers are handed to WSASend in the order they were queued;
\* and a buffer is removed from the queue only after its own send completed.
C30_OneSendInOrder ==
    /\ sock.failed = {}
    /\ sock.sendThread = "HandleReadyToSendEvent"
          => /\ Len(sock.m_SendDatas) > 0
             /\ ~sock.m_bWaitingForSendCompletion
             /\ sock.inFlight = {}
             /\ sock.removed = sock.submitted
    /\ Cardinality(sock.inFlight) <= 1
    /\ Len(sock.submitted) <= Len(sock.removed) + 1
    /\ IsPrefix(sock.submitted, sock.enqueued)
    /\ IsPrefix(sock.removed, sock.submitted)
    /\ \A i \in 1..Len(sock.removed) : sock.removed[i] \in sock.completed

\* the third buffer about to be sent: the second was queued while the first
\* was in flight, and both have been sent, completed and removed in order
C30_Witness ==
    /\ sock.sendThread = "HandleReadyToSendEvent"
    /\ sock.removed = <<1, 2>> /\ sock.submitted = <<1, 2>>
    /\ sock.m_SendDatas = <<3>> /\ sock.completed = {1, 2}
    /\ ~sock.m_bErrorSignal

====
